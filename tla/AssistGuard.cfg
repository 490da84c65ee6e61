SPECIFICATION FairSpec
INVARIANTS TypeOK ClicksBeforeReview UsersFieldsUntouched
PROPERTY QueueServed
CONSTANTS
  Apps = {1, 2}
  Threads = {t1}
  Runners = {r1, r2}
  Headless = {r2}
  Playbook <- ShortPlaybook
  Stored = {"none", "ready"}
  Ops <- AllOps
  Buttons <- AllButtons
  Page <- FullPage
  Profile <- KnownFacts
  Bank <- KnownAnswers
  Replies <- OneReply
  Shared = FALSE
  MaxOps = 2
  MaxClicks = 1
  MaxFaults = 1
CHECK_DEADLOCK FALSE
