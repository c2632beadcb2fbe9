----------------------------- MODULE AdminPages -----------------------------
(***************************************************************************)
(* The pages of admin-web, the back office of operations and finance.      *)
(***************************************************************************)
EXTENDS PageParts

QueueWork == [reads |-> FilteredBy(ReadsOnce), acts |-> NoActs]
QueueShows == Renders(WhenReady, TRUE)

\* Mutant: the case is not read again.
CaseWork_NotReloaded ==
  [reads |-> ReadsOnce,
   acts |-> [transition |->
     Act(<<Request("move", MoveCase, {"to_status", "reason", "evidence_ref"})>>, "stays")]]

\* The stages on offer are those that follow the one that was read.
CaseWork ==
  [reads |-> ReadsOnce,
   acts |-> [transition |->
     Act(<<Request("move", MoveCase, {"to_status", "reason", "evidence_ref"})>>, "reload")]]
CaseMoves == [transition |-> Button("open", "submitting")]
CaseShows == [Renders(WhenReady, TRUE) EXCEPT !.buttons = CaseMoves]

\* The hook, as in tourist-web.
OperationsAsks == {"frame", "timer"}

\* Abstraction: the incident that is selected is a row of the list, and open is
\* one that is neither resolved nor closed.
IncidentsWork ==
  [reads |-> [FilteredBy(ReadsQuietly) EXCEPT !.asks = @ \cup OperationsAsks],
   acts |-> [acknowledge |-> Act(<<Request("write", NoBody, {})>>, "reload"),
             escalate |-> Act(<<Request("write", NoBody, {})>>, "reload"),
             resolve |-> Act(<<Request("move", Resolve, {"note"})>>, "reload"),
             close |-> Act(<<Request("move", CloseIncident, {})>>, "reload"),
             addNote |-> Act(<<Request("write", AddNote, {"body"})>>, "reload"),
             assign |-> Act(<<Request("write", Assign, {"user_id"})>>, "reload")]]
IncidentsShows ==
  [Renders(Always, FALSE) EXCEPT
     !.buttons = [a \in DOMAIN IncidentsWork.acts |-> Button("open", "busy")]]

ContentWork ==
  [reads |-> ReadsQuietly,
   acts |-> [save |-> Act(<<Request("save", PutSetting, {"value"})>>, "reload")]]
\* Only "Loading" hides the form: it is there when the content could not be read.
ContentShows ==
  [Renders({"ready", "error"}, FALSE) EXCEPT !.buttons = [save |-> Button("form", "saving")]]

FinanceWork ==
  [reads |-> FilteredBy(ReadsQuietly),
   acts |-> [runBatch |-> Act(<<Request("write", RunBatch, {})>>, "reload"),
             transition |->
               Act(<<Request("move", MovePayout, {"to", "failure_reason", "provider_reference"})>>,
                   "reload")]]
FinanceShows ==
  [Renders(Always, FALSE) EXCEPT
     !.buttons = [runBatch |-> Button("form", "batchBusy"), transition |-> Button("open", "row")]]

\* A frame only joins the list of events.
ActiveToursWork ==
  [reads |-> [ReadsQuietly EXCEPT !.asks = @ \cup (OperationsAsks \ {"frame"})], acts |-> NoActs]
ActiveToursShows == Renders(WhenReady, TRUE)

CourseFields == {"code", "title", "required_for_certification", "modules"}

TrainingWork ==
  [reads |-> ReadsQuietly,
   acts |-> [createCourse |-> Act(<<Request("write", CreateCourse, CourseFields)>>, "reload"),
             toggleActive |-> Act(<<Request("write", PatchCourse, {"active"})>>, "reload")]]
TrainingShows ==
  [Renders(Always, FALSE) EXCEPT
     !.buttons = [createCourse |-> Button("form", "busy"), toggleActive |-> Button("any", "busy")]]

TemplateFields == {"key", "channel", "subject", "body"}

SettingsWork ==
  [reads |-> ReadsQuietly,
   acts |-> [createTemplate |-> Act(<<Request("write", CreateTemplate, TemplateFields)>>, "reload"),
             activate |-> Act(<<Request("move", NoBody, {})>>, "reload"),
             editSetting |-> Act(<<Request("save", PutSetting, {"value"})>>, "reload")]]
SettingsShows ==
  [Renders(Always, FALSE) EXCEPT
     !.buttons = [createTemplate |-> Button("form", "never"), activate |-> Button("open", "row"),
                  editSetting |-> Button("any", "row")]]

\* A version that exists is not written over.
LegalWork ==
  [reads |-> ReadsQuietly,
   acts |-> [publish |->
               Act(<<Request("move", PublishLegal, {"version", "summary", "body"})>>, "reload"),
             approve |-> Act(<<Request("write", NoBody, {})>>, "reload")]]
LegalShows ==
  [Renders({"ready", "error"}, FALSE) EXCEPT
     !.buttons = [publish |-> Button("form", "busy"), approve |-> Button("any", "busy")]]

QualityWork ==
  [reads |-> FilteredBy(ReadsQuietly),
   acts |-> [resolve |-> Act(<<Request("move", Resolve, {"note"})>>, "reload")]]
QualityShows ==
  [Renders(Always, FALSE) EXCEPT !.buttons = [resolve |-> Button("open", "row")]]

GuidesWork == [reads |-> ReadsOnce, acts |-> NoActs]
GuidesShows == Renders(WhenReady, TRUE)

AuditWork == [reads |-> FilteredBy(ReadsQuietly), acts |-> NoActs]
AuditShows == Renders(Always, FALSE)

ReportsWork == [reads |-> ReadsQuietly, acts |-> NoActs]
ReportsShows == Renders(Always, FALSE)
-----------------------------------------------------------------------------
AdminWork ==
  [queue |-> QueueWork, case |-> CaseWork, incidents |-> IncidentsWork, content |-> ContentWork,
   finance |-> FinanceWork, activeTours |-> ActiveToursWork, training |-> TrainingWork,
   settings |-> SettingsWork, legal |-> LegalWork, quality |-> QualityWork, guides |-> GuidesWork,
   audit |-> AuditWork, reports |-> ReportsWork]

AdminShows ==
  [queue |-> QueueShows, case |-> CaseShows, incidents |-> IncidentsShows, content |-> ContentShows,
   finance |-> FinanceShows, activeTours |-> ActiveToursShows, training |-> TrainingShows,
   settings |-> SettingsShows, legal |-> LegalShows, quality |-> QualityShows, guides |-> GuidesShows,
   audit |-> AuditShows, reports |-> ReportsShows]
=============================================================================
