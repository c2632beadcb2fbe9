---------------------------- MODULE TouristPages ----------------------------
(***************************************************************************)
(* The pages of tourist-web and tourist-mobile, and the privacy screen that*)
(* both phones share.  For each, what it reads and sends (...Work) and what*)
(* it renders (...Shows).  The booking form and the checkout have modules  *)
(* of their own.                                                           *)
(***************************************************************************)
EXTENDS PageParts

(* ------------------------------ tourist-web ----------------------------- *)

WebSearchWork == [reads |-> FilteredBy(ReadsOnce), acts |-> NoActs]
WebSearchShows == Renders(WhenReady, TRUE)

WebDetailWork == [reads |-> ReadsOnce, acts |-> NoActs]
WebDetailShows == Renders(WhenReady, TRUE)

\* The hook of tourist-web and admin-web: any frame is handed on, and the
\* timer fires while the socket is not open, also when it has given up.
WebSocketAsks == {"frame", "timer"}

\* A frame carries the status and the position.
LivePanelWork ==
  [reads |-> [CarriesOn(ReadsQuietly) EXCEPT !.asks = (WebSocketAsks \ {"frame"}) \cup {"data"}],
   acts |-> NoActs]
LivePanelShows == Renders(WhenReady, FALSE)

\* "Already reviewed — nothing more to do here."
WebReviewWork ==
  [reads |-> ReadsNothing,
   acts |-> [submit |-> [Act(<<Request("move", CreateReview, {"rating", "body", "tags"})>>, "done")
                           EXCEPT !.conflict = "done"]]]
WebReviewShows ==
  [Renders(WhenReady, FALSE) EXCEPT !.buttons = [submit |-> Button("form", "busy")]]

SosFields == {"latitude", "longitude", "accuracy_m"}

WebSosWork ==
  [reads |-> ReadsNothing,
   acts |-> [trigger |-> Act(<<Request("write", TriggerSos, SosFields)>>, "stays")]]
WebSosShows ==
  [Renders(WhenReady, FALSE) EXCEPT !.buttons = [trigger |-> Button("form", "busy")]]

\* A receipt that is not ready yet is a message with a Retry, as an error is.
ReceiptWork == [reads |-> ReadsOnce, acts |-> NoActs]
ReceiptShows == Renders(WhenReady, TRUE)

WebBookingsWork == [reads |-> ReadsOnce, acts |-> NoActs]
WebBookingsShows == Renders(WhenReady, TRUE)

\* The cleanup of the effect cancels the read of the guide before.
WebReviewsWork ==
  [reads |-> [FilteredBy(ReadsQuietly) EXCEPT !.order = "last", !.fails = "empties"], acts |-> NoActs]
WebReviewsShows == Renders(Always, FALSE)

WebProfileFields ==
  {"full_name", "nationality", "phone", "language", "emergency_contact_name",
   "emergency_contact_phone", "accessibility_needs"}

\* A profile that does not exist yet is read as an empty one.
WebProfileWork ==
  [reads |-> ReadsOnce,
   acts |-> [save |-> Act(<<Request("save", PatchTourist, WebProfileFields)>>, "local")]]
WebProfileShows ==
  [Renders(WhenReady, TRUE) EXCEPT !.buttons = [save |-> Button("any", "saving")]]

\* Of an account that cannot be deleted, or whose deletion failed, the reasons
\* are read again.
WebDeletionWork ==
  [reads |-> ReadsQuietly,
   acts |-> [delete |-> [Act(<<Request("move", NoBody, {})>>, "done")
                           EXCEPT !.conflict = "refresh", !.failed = "refresh"]]]
WebDeletionShows ==
  [Renders(Always, FALSE) EXCEPT !.buttons = [delete |-> Button("open", "busy")]]

WebRegisterWork ==
  [reads |-> ReadsNothing,
   acts |-> [submit |-> Act(<<Request("write", RegisterTourist, {"intent", "email", "password"})>>, "done")]]
WebRegisterShows ==
  [Renders(WhenReady, FALSE) EXCEPT !.buttons = [submit |-> Button("form", "pending")]]

ForgotWork ==
  [reads |-> ReadsNothing,
   acts |-> [submit |-> Act(<<Request("write", ForgotPassword, {"email"})>>, "done")]]
ForgotShows ==
  [Renders(WhenReady, FALSE) EXCEPT !.buttons = [submit |-> Button("form", "pending")]]

ResetWork ==
  [reads |-> ReadsNothing,
   acts |-> [submit |-> Act(<<Request("move", ResetPassword, {"token", "new_password"})>>, "done")]]
ResetShows ==
  [Renders(WhenReady, FALSE) EXCEPT !.buttons = [submit |-> Button("form", "pending")]]
-----------------------------------------------------------------------------
(* ---------------------------- tourist-mobile ---------------------------- *)

PhoneSearchWork == [reads |-> FilteredBy(ReadsOnce), acts |-> NoActs]
PhoneSearchShows == Renders(WhenReady, TRUE)

\* The receipt is fetched when its button is pressed, and opened elsewhere.
PhoneDetailWork ==
  [reads |-> ReadsOnce,
   acts |-> [openReceipt |-> Act(<<Request("none", NoBody, {})>>, "stays")]]
PhoneDetailShows ==
  [Renders(WhenReady, TRUE) EXCEPT !.buttons = [openReceipt |-> Button("any", "receiptBusy")]]

\* Abstraction: a further page of the list is part of the read.
PhoneBookingsWork == [reads |-> CarriesOn(ReadsQuietly), acts |-> NoActs]
PhoneBookingsShows == Renders(Always, TRUE)

PhoneProfileFields ==
  {"full_name", "nationality", "preferred_language", "emergency_contact_name",
   "emergency_contact_phone_e164"}

PhoneProfileWork ==
  [reads |-> ReadsOnce,
   acts |-> [save |-> Act(<<Request("save", PatchTourist, PhoneProfileFields)>>, "local")]]

\* Mutant: the form is there although nothing could be read.
PhoneProfileShows_InError ==
  [Renders({"ready", "error"}, TRUE) EXCEPT !.buttons = [save |-> Button("form", "saving")]]
PhoneProfileShows ==
  [Renders(WhenReady, TRUE) EXCEPT !.buttons = [save |-> Button("any", "saving")]]

PhoneGuideWork == [reads |-> [FilteredBy(ReadsOnce) EXCEPT !.order = "last"], acts |-> NoActs]
PhoneGuideShows == Renders(WhenReady, FALSE)

PhoneReviewsWork ==
  [reads |-> [FilteredBy(ReadsQuietly) EXCEPT !.order = "last", !.fails = "silently"], acts |-> NoActs]
PhoneReviewsShows == Renders(Always, FALSE)

PhoneReviewWork ==
  [reads |-> ReadsNothing,
   acts |-> [submit |-> [Act(<<Request("move", CreateReview, {"rating", "body", "tags"})>>, "done")
                           EXCEPT !.conflict = "done"]]]
PhoneReviewShows ==
  [Renders(WhenReady, FALSE) EXCEPT !.buttons = [submit |-> Button("form", "busy")]]

PhoneSosWork ==
  [reads |-> ReadsNothing,
   acts |-> [send |-> Act(<<Request("write", TriggerSos, SosFields)>>, "done")]]
PhoneSosShows ==
  [Renders(WhenReady, FALSE) EXCEPT !.buttons = [send |-> Button("form", "busy")]]

\* packages/ui-native: a deletion that failed waits for the reasons.
PrivacyWork ==
  [reads |-> ReadsQuietly,
   acts |-> [export |-> Act(<<Request("none", NoBody, {})>>, "stays"),
             delete |-> [Act(<<Request("move", NoBody, {})>>, "done")
                           EXCEPT !.conflict = "reload", !.failed = "reload"]]]
PrivacyShows ==
  [Renders({"ready", "error"}, TRUE) EXCEPT
     !.buttons = [export |-> Button("form", "exporting"), delete |-> Button("open", "deleting")]]
-----------------------------------------------------------------------------
TouristWork ==
  [webSearch |-> WebSearchWork, webDetail |-> WebDetailWork, livePanel |-> LivePanelWork,
   webReview |-> WebReviewWork, webSos |-> WebSosWork, receipt |-> ReceiptWork,
   webBookings |-> WebBookingsWork, webReviews |-> WebReviewsWork, webProfile |-> WebProfileWork,
   webDeletion |-> WebDeletionWork, webRegister |-> WebRegisterWork, forgot |-> ForgotWork,
   reset |-> ResetWork, phoneSearch |-> PhoneSearchWork, phoneDetail |-> PhoneDetailWork,
   phoneBookings |-> PhoneBookingsWork, phoneProfile |-> PhoneProfileWork,
   phoneGuide |-> PhoneGuideWork, phoneReviews |-> PhoneReviewsWork,
   phoneReview |-> PhoneReviewWork, phoneSos |-> PhoneSosWork, privacy |-> PrivacyWork]

TouristShows ==
  [webSearch |-> WebSearchShows, webDetail |-> WebDetailShows, livePanel |-> LivePanelShows,
   webReview |-> WebReviewShows, webSos |-> WebSosShows, receipt |-> ReceiptShows,
   webBookings |-> WebBookingsShows, webReviews |-> WebReviewsShows, webProfile |-> WebProfileShows,
   webDeletion |-> WebDeletionShows, webRegister |-> WebRegisterShows, forgot |-> ForgotShows,
   reset |-> ResetShows, phoneSearch |-> PhoneSearchShows, phoneDetail |-> PhoneDetailShows,
   phoneBookings |-> PhoneBookingsShows, phoneProfile |-> PhoneProfileShows,
   phoneGuide |-> PhoneGuideShows, phoneReviews |-> PhoneReviewsShows,
   phoneReview |-> PhoneReviewShows, phoneSos |-> PhoneSosShows, privacy |-> PrivacyShows]
=============================================================================
