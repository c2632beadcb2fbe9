----------------------------- MODULE GuidePages -----------------------------
(***************************************************************************)
(* The pages of guide-web and guide-mobile but for the jobs and the tour,  *)
(* which are in JobFeed and TourScreen.                                    *)
(***************************************************************************)
EXTENDS PageParts

\* A guide who has not applied yet is read as one without a profile.
DashboardWork == [reads |-> ReadsOnce, acts |-> NoActs]
DashboardShows == Renders(WhenReady, TRUE)

GuideRegisterWork ==
  [reads |-> ReadsNothing,
   acts |-> [submit |-> Act(<<Request("write", RegisterGuide, {"intent", "email", "password"})>>, "done")]]
GuideRegisterShows ==
  [Renders(WhenReady, FALSE) EXCEPT !.buttons = [submit |-> Button("form", "pending")]]

\* The application, then the languages: the second may fail after the first.
ApplyWork ==
  [reads |-> ReadsNothing,
   acts |-> [submit |->
     Act(<<Request("write", ApplyAsGuide, {"public_name", "bio", "region_id"}),
           Request("write", PatchGuide, {"languages"})>>, "done")]]
ApplyShows ==
  [Renders(WhenReady, FALSE) EXCEPT !.buttons = [submit |-> Button("form", "pending")]]

GuideToursWork == [reads |-> ReadsOnce, acts |-> NoActs]
GuideToursShows == Renders({"loading", "ready"}, TRUE)

\* The document is registered and its bytes put to storage; further uploads
\* may begin before the first is through.
VerificationWork ==
  [reads |-> ReadsOnce,
   acts |-> [upload |->
     Act(<<Request("write", RegisterDocument, {"type", "content_type"}),
           Request("write", NoBody, {})>>, "refresh")]]
VerificationShows == Renders(WhenReady, TRUE)
UploadShows == [VerificationShows EXCEPT !.buttons = [upload |-> Button("any", "never")]]

GuideProfileFields == {"public_name", "bio", "region_id", "languages", "specialties"}

GuideProfileWork ==
  [reads |-> ReadsOnce,
   acts |-> [save |-> Act(<<Request("save", PatchGuide, GuideProfileFields)>>, "local")]]
GuideProfileShows ==
  [Renders(WhenReady, TRUE) EXCEPT !.buttons = [save |-> Button("any", "saving")]]

\* The course that is open and the list are read one after the other.
GuideTrainingWork ==
  [reads |-> ReadsQuietly,
   acts |-> [enroll |-> Act(<<Request("move", NoBody, {})>>, "reload"),
             completeLesson |-> Act(<<Request("write", NoBody, {})>>, "reload"),
             submitQuiz |-> Act(<<Request("write", SubmitQuiz, {"answers"})>>, "reload")]]
GuideTrainingShows ==
  [Renders(Always, FALSE) EXCEPT
     !.buttons = [enroll |-> Button("open", "busy"), completeLesson |-> Button("any", "busy"),
                  submitQuiz |-> Button("any", "busy")]]

\* Abstraction: a further page of the statement is part of the read.
WalletWork ==
  [reads |-> ReadsQuietly,
   acts |-> [saveAccount |->
     Act(<<Request("write", PutPayoutAccount, {"provider", "network", "account_ref"})>>, "local")]]
WalletShows ==
  [Renders(Always, FALSE) EXCEPT !.buttons = [saveAccount |-> Button("form", "saveBusy")]]

GuideDeletionWork ==
  [reads |-> ReadsQuietly,
   acts |-> [delete |-> [Act(<<Request("move", NoBody, {})>>, "done")
                           EXCEPT !.conflict = "refresh", !.failed = "refresh"]]]
GuideDeletionShows ==
  [Renders(Always, FALSE) EXCEPT !.buttons = [delete |-> Button("open", "busy")]]

PhoneToursWork == [reads |-> CarriesOn(ReadsQuietly), acts |-> NoActs]
PhoneToursShows == Renders({"ready", "error"}, TRUE)
-----------------------------------------------------------------------------
GuideWork ==
  [dashboard |-> DashboardWork, guideRegister |-> GuideRegisterWork, apply |-> ApplyWork,
   guideTours |-> GuideToursWork, verification |-> VerificationWork,
   guideProfile |-> GuideProfileWork, guideTraining |-> GuideTrainingWork, wallet |-> WalletWork,
   guideDeletion |-> GuideDeletionWork, phoneTours |-> PhoneToursWork]

GuideShows ==
  [dashboard |-> DashboardShows, guideRegister |-> GuideRegisterShows, apply |-> ApplyShows,
   guideTours |-> GuideToursShows, verification |-> UploadShows,
   guideProfile |-> GuideProfileShows, guideTraining |-> GuideTrainingShows, wallet |-> WalletShows,
   guideDeletion |-> GuideDeletionShows, phoneTours |-> PhoneToursShows]
=============================================================================
