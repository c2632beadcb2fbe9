----------------------------- MODULE PageParts -----------------------------
(***************************************************************************)
(* The parts the pages of the five apps are made of.  A page reads what it *)
(* shows, shows it or not, and has buttons whose handlers send requests.   *)
(* TouristPages, GuidePages and AdminPages say for each page which parts it*)
(* has, Pages what they do.                                                *)
(***************************************************************************)
EXTENDS Naturals, Sequences

(* ------------------------------- reading ------------------------------- *)
(* asks:   what makes the page read: being opened, another filter, a frame *)
(*         of its socket, the timer while the socket is down; with "data"  *)
(*         a frame is taken for the answer;                                *)
(* order:  "any" answer is taken, or that of the "last" request only;      *)
(* clears: a read that begins takes the page back to "Loading";            *)
(* fails:  a failed read leads to an error, "keeps" what is shown if there *)
(*         is any, is passed over "silently", or "empties" the page.       *)

ReadsOnce == [asks |-> {"open"}, order |-> "any", clears |-> TRUE, fails |-> "error"]
ReadsQuietly == [ReadsOnce EXCEPT !.clears = FALSE]
ReadsNothing == [ReadsQuietly EXCEPT !.asks = {}]
FilteredBy(how) == [how EXCEPT !.asks = @ \cup {"filter"}]
CarriesOn(how) == [how EXCEPT !.fails = "keeps"]

(* ------------------------------- handlers ------------------------------ *)
(* A request moves what is open and closes it, refused when it no longer   *)
(* is ("move"); writes whatever there was ("write"); writes back what the  *)
(* page shows of it, edited ("save"); or changes nothing ("none").         *)
(* The server refuses a body with a field it does not know, or without one *)
(* that it requires.                                                       *)

Request(effect, endpoint, fields) ==
  [effect |-> effect, fits |-> endpoint.requires \subseteq fields /\ fields \subseteq endpoint.takes]

\* What the page does when all its requests are answered, when one met a
\* conflict, and when one failed: "reload" and keep the button busy, "refresh"
\* without waiting, show the answer ("local"), give way to a notice ("done"),
\* or stay ("stays").
Act(requests, ok) == [requests |-> requests, ok |-> ok, conflict |-> "stays", failed |-> "stays"]

NoActs == [a \in {} |-> Act(<<>>, "stays")]

(* ------------------------------- rendering ----------------------------- *)
(* shownIn: the load states in which there is more than a message; retry:  *)
(* the error has a Retry.                                                  *)
(* A button is there for a row that is "open", for "any", or needs nothing *)
(* that was read ("form"); it is disabled while the flag is set that it    *)
(* shares with others, while its own row is busy ("row"), or never.        *)

Button(on, flag) == [on |-> on, flag |-> flag]

WhenReady == {"ready"}
Always == {"loading", "ready", "error"}
Renders(in, retry) == [shownIn |-> in, retry |-> retry, buttons |-> NoActs]
-----------------------------------------------------------------------------
(* --------------------- the bodies that handlers decode ------------------ *)

Endpoint(takes, requires) == [takes |-> takes, requires |-> requires]
NoBody == Endpoint({}, {})

Registration == {"intent", "email", "phone", "password", "full_name"}
RegisterTourist == Endpoint(Registration, {"intent", "email", "password", "full_name"})
RegisterGuide == Endpoint(Registration, {"intent", "email", "password"})
ForgotPassword == Endpoint({"email"}, {"email"})
ResetPassword == Endpoint({"email", "code", "password"}, {"email", "code", "password"})
PatchTourist ==
  Endpoint({"full_name", "nationality", "preferred_language", "emergency_contact_name",
            "emergency_contact_phone_e164"}, {})
CreateReview == Endpoint({"rating", "body", "tags"}, {"rating"})
TriggerSos == Endpoint({"latitude", "longitude", "accuracy_m"}, {"latitude", "longitude"})
ApplyAsGuide == Endpoint({"public_name", "bio", "region_id"}, {"public_name"})
PatchGuide ==
  Endpoint({"public_name", "bio", "region_id", "latitude", "longitude", "languages",
            "specialty_ids"}, {})
RegisterDocument == Endpoint({"type", "content_type", "expires_at"}, {"type", "content_type"})
SubmitQuiz == Endpoint({"answers"}, {})
PutPayoutAccount == Endpoint({"provider", "network", "account_ref"}, {"provider", "account_ref"})
MoveCase == Endpoint({"to_status", "reason", "evidence_ref"}, {"to_status", "reason"})
AddNote == Endpoint({"body"}, {"body"})
Assign == Endpoint({"user_id"}, {"user_id"})
Resolve == Endpoint({"note"}, {"note"})
CloseIncident == Endpoint({"note"}, {})
RunBatch == Endpoint({"scheduled_for"}, {})
MovePayout == Endpoint({"to", "failure_reason", "provider_reference"}, {"to"})
CreateCourse ==
  Endpoint({"code", "title", "description", "required_for_certification", "pass_score", "quiz",
            "modules"}, {"code", "title"})
PatchCourse ==
  Endpoint({"title", "description", "required_for_certification", "pass_score", "active"}, {})
CreateTemplate == Endpoint({"key", "channel", "subject", "body"}, {"key", "channel", "body"})
PutSetting == Endpoint({"value"}, {"value"})
PublishLegal == Endpoint({"version", "url", "summary", "body"}, {"version", "body"})
=============================================================================
