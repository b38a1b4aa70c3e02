----------------------------- MODULE MCWorkspace -----------------------------
(* What is written and read in order, side by side: the workspace's log, the desktop's     *)
(* outbox, the Hermes adapter, a conversation's files and a channel's tasks. Each behaviour runs one of them, chosen in the initial   *)
(* state.                                                                                  *)
EXTENDS WorkspaceLog, TLC

CONSTANTS
  general

VARIABLES
  part,  \* the part this behaviour runs
  log, access, orphans, orderRows, cursor, view, shown, heard, publishing, gates, flush,
  workers, waiting, reload, authored, settled, orderUsed, adapter, hermesDisk, head,
  server, sessions, draining, seen, hermesUsed, now, open, filesRows, filesDisk,
  deleted, sent, filesWork, faults, cut, missed, seated, archived, tasks, lastNumber,
  published, requests, records, answers, holder, boardWork, walk, attempts, seatings

Sends == INSTANCE Outbox WITH
  Conversation <- {general}, MaxAuthored <- 2, ConversationOf <- <<general, general>>,
  MaxReplacements <- 0, MaxDiscards <- 1, MaxLosses <- 1, MaxRefusals <- 0,
  MaxAccessChanges <- 2, MaxRestarts <- 1, MaxCatalogs <- 0, MaxSyncs <- 0,
  Realtime <- TRUE, rows <- orderRows, used <- orderUsed
Hermes == INSTANCE HermesAdapter WITH

  Events <- <<[conversation |-> general, kind |-> "ambient"],
          [conversation |-> general, kind |-> "ambient"],
          [conversation |-> general, kind |-> "mention"]>>,
  Capacity <- 1, MaxWakes <- 2, MaxFailures <- 1, MaxCrashes <- 1, MaxStops <- 0,
  MaxResyncs <- 1, disk <- hermesDisk, used <- hermesUsed
Shared == INSTANCE Attachments WITH
  Workers <- {"x", "y"}, MaxFiles <- 2, MaxMessages <- 1, MaxNow <- 2, UploadTTL <- 1,
  UnclaimedTTL <- 1, BatchSize <- 1, MaxFaults <- 1, rows <- filesRows,
  disk <- filesDisk, work <- filesWork
Task(status, rank) == [status |-> status, rank |-> rank, version |-> 1, assignee |-> "nobody", completed |-> FALSE]
Board == INSTANCE Tasks WITH
  Sessions <- {"x", "y"}, Keys <- {1, 2}, Members <- {"ana", "bo"}, Nobody <- "nobody",
  Authors <- {"ana"}, Assignees <- {"bo"},
  Boards <- {<<Task("todo", 1), Task("todo", 2), Task("done", 8)>>}, Step <- 2,
  RankLimit <- 8, PageSize <- 2, MaxTasks <- 4, MaxAttempts <- 2, MaxSeatings <- 1,
  work <- boardWork

TableVars == <<
  last, epoch, floor, rows, createdAt, lock, tip, inserted, plans, clock>>
SendsVars == <<
  log, access, orphans, orderRows, cursor, view, shown, heard, publishing, gates, flush,
  workers, waiting, reload, authored, settled, orderUsed>>
HermesVars == <<
  adapter, hermesDisk, head, server, sessions, draining, seen, hermesUsed>>
SharedVars == <<
  now, open, filesRows, filesDisk, deleted, sent, filesWork, faults, cut, missed>>
BoardVars == <<
  seated, archived, tasks, lastNumber, published, requests, records, answers, holder,
  boardWork, walk, attempts, seatings>>
SVars == <<part, TableVars, SendsVars, HermesVars, SharedVars, BoardVars>>

\* a part that is not chosen rests
TableRests ==
  /\ last = 0 /\ epoch = (CHOOSE e \in Epochs : TRUE) /\ floor = 0 /\ rows = {}
  /\ createdAt = [s \in Sequences |-> 0] /\ lock = NoWriter
  /\ tip = [w \in Writers |-> 0] /\ inserted = [w \in Writers |-> {}] /\ plans = {}
  /\ clock = 0
SendsRests ==
  /\ log = 0 /\ access = 0 /\ orphans = 0 /\ orderRows = 0 /\ cursor = 0 /\ view = 0
  /\ shown = 0 /\ heard = 0 /\ publishing = 0 /\ gates = 0 /\ flush = 0
  /\ workers = 0 /\ waiting = 0 /\ reload = 0 /\ authored = 0 /\ settled = 0
  /\ orderUsed = 0
HermesRests ==
  /\ adapter = 0 /\ hermesDisk = 0 /\ head = 0 /\ server = 0 /\ sessions = 0
  /\ draining = 0 /\ seen = 0 /\ hermesUsed = 0
SharedRests ==
  /\ now = 0 /\ open = 0 /\ filesRows = 0 /\ filesDisk = 0 /\ deleted = 0 /\ sent = 0
  /\ filesWork = 0 /\ faults = 0 /\ cut = 0 /\ missed = 0
BoardRests ==
  /\ seated = 0 /\ archived = 0 /\ tasks = 0 /\ lastNumber = 0 /\ published = 0
  /\ requests = 0 /\ records = 0 /\ answers = 0 /\ holder = 0 /\ boardWork = 0
  /\ walk = 0 /\ attempts = 0 /\ seatings = 0

SInit ==
  \/ part = "log" /\ TableInit /\ SendsRests /\ HermesRests /\ SharedRests /\ BoardRests
  \/ part = "order" /\ Sends!Init /\ TableRests /\ HermesRests /\ SharedRests /\ BoardRests
  \/ part = "hermes" /\ Hermes!Init /\ TableRests /\ SendsRests /\ SharedRests /\ BoardRests
  \/ part = "files" /\ Shared!Init /\ TableRests /\ SendsRests /\ HermesRests /\ BoardRests
  \/ part = "board" /\ Board!Init /\ TableRests /\ SendsRests /\ HermesRests /\ SharedRests

OthersRest(chosen) ==
  /\ UNCHANGED part
  /\ chosen # "log" => UNCHANGED TableVars
  /\ chosen # "order" => UNCHANGED SendsVars
  /\ chosen # "hermes" => UNCHANGED HermesVars
  /\ chosen # "files" => UNCHANGED SharedVars
  /\ chosen # "board" => UNCHANGED BoardVars

SNext ==
  \/ part = "log" /\ TableNext /\ OthersRest("log")
  \/ part = "order" /\ Sends!Next /\ OthersRest("order")
  \/ part = "hermes" /\ Hermes!Next /\ OthersRest("hermes")
  \/ part = "files" /\ Shared!Next /\ OthersRest("files")
  \/ part = "board" /\ Board!Next /\ OthersRest("board")

SSpec == SInit /\ [][SNext]_SVars


---------------------------------------------------------------------------
(* Each part keeps its types. *)
STypeOK ==
  /\ part = "order" => Sends!TypeOK
  /\ part = "hermes" => Hermes!TypeOK
  /\ part = "files" => Shared!TypeOK
  /\ part = "board" => Board!TypeOK

(* The server receives a conversation's messages in the order they were written, whatever  *)
(* was lost, retried or restarted, and an outbox at rest is shown as it is stored.         *)
SentInOrder ==
  /\ STypeOK
  /\ part = "order" => Sends!AuthoredOrder
  /\ part = "order" => Sends!ShownIsKept

(* The adapter's file and memory agree at every await; no message below its position is    *)
(* forgotten, a live session holds one copy of a wake, and read cursors follow the         *)
(* handover.                                                                               *)
HermesKeeps ==
  /\ part = "hermes" => Hermes!FileIsMemory
  /\ part = "hermes" => Hermes!NothingOverlooked
  /\ part = "hermes" => Hermes!OneCopy
  /\ part = "hermes" => Hermes!ReadsFollow

(* A message's file has its bytes and no bytes outlive their row; a board's numbers, ranks, *)
(* assignees and events agree with each other whatever its transactions interleave, retry  *)
(* or roll back, and a page-by-page reading of it misses nothing.                          *)
ContentHolds ==
  /\ part = "files" => Shared!NothingDangling
  /\ part = "files" => Shared!ReadsServe
  /\ part = "files" => Shared!NoOrphans
  /\ part = "board" => Board!BoardHolds
  /\ part = "board" => Board!AssigneesAreMembers
  /\ part = "board" => Board!EventsFollowVersions
  /\ part = "board" => Board!OncePerKey
  /\ part = "board" => Board!WalkMissesNothing

(* A message marked failed is sent again only because the person asked.                    *)
FailedStays == 
  [][part = "order" => Sends!FailedStaysFailed]_SVars

(* The adapter's position never moves back, and the ambient wakes of a conversation enter  *)
(* its session in the order they were recorded.                                            *)
HermesInOrder == 
  [][part = "hermes" => Hermes!NeverBack /\ Hermes!InOrder]_SVars

(* A message keeps the file it claimed, and a move puts its task where it was asked to and *)
(* reorders nothing else.                                                                *)
ContentKept == 
  [][/\ part = "files" => Shared!ClaimIsKept
     /\ part = "board" => Board!MovesLand]_SVars

=============================================================================
