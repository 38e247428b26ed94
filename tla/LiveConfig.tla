----------------------------- MODULE LiveConfig -----------------------------
(***************************************************************************)
(* The configuration while the router runs (config.go, api.go): the file,  *)
(* the configuration in memory, and what the router, the cost tracker and  *)
(* the limiters work by.  The API changes parts in memory and saves them,  *)
(* or writes the file and loads it; people edit the file; and a watcher    *)
(* polls it, told by a flag that the next change is the router's own.      *)
(*                                                                         *)
(* A value of a piece stands for what it comes to once it is loaded, and   *)
(* for these pieces loading what was saved gives the same again.  That is  *)
(* not so for all of the file: a save writes the environment's values over *)
(* the references to them, and every load appends the tenants the          *)
(* environment exempts.  Those parts are left out.                         *)
(***************************************************************************)
EXTENDS Requests, Naturals

CONSTANTS
  Value,       \* values of a part, other than the one an empty file has
  MaxEdits     \* bound on the changes

ASSUME ConfigAssumption == Value \subseteq Nat \ {0} /\ MaxEdits \in Nat

Piece == {"rules", "budgets", "limits"}   \* limits: those per service
Config == [Piece -> Value \cup {0}]
Filled(v) == [p \in Piece |-> v]
Empty == Filled(0)
Broken == [broken |-> TRUE]

VARIABLES
  onDisk,    \* what the file holds
  unseen,    \* who has written it since the watcher looked: "router" or "other"
  skip,      \* skipNextReload
  memory,    \* cfg
  inUse,     \* [Piece -> the value its component works by]
  api,       \* [Request -> the state of a call of the API]
  watcher,   \* the state of watchConfig: "start" until it has looked for the first time
  edits,     \* number of changes so far
  crossed    \* history: a change came between another and its being noticed

configuration == <<onDisk, unseen, skip, memory, inUse, api, watcher, edits, crossed>>

Quiet == [pc |-> "quiet", puts |-> FALSE, data |-> Empty]
Calls(r, s) == api' = [api EXCEPT ![r] = s]
Working(r) == api[r].pc # "quiet"
OtherWorks(r) == watcher.pc # "quiet" \/ \E q \in Request \ {r} : Working(q)

\* Changes are bounded, and end with the first that crosses another.
MayChange == edits < MaxEdits /\ ~crossed

\* WriteFile truncates the file and then fills it.
Writes(content, who) == onDisk' = content /\ unseen' = unseen \cup {who}
Writer(r) == IF api[r].puts THEN "other" ELSE "router"

-----------------------------------------------------------------------------
\* handleRules and handleBudgets: the memory is changed, the component is told.
ChangePiece(r) ==
  /\ ~Working(r) /\ MayChange
  /\ \E p \in Piece \ {"limits"}, v \in Value :
       memory' = [memory EXCEPT ![p] = v] /\ inUse' = [inUse EXCEPT ![p] = v]
  /\ Calls(r, [Quiet EXCEPT !.pc = "marshal"])
  /\ edits' = edits + 1 /\ crossed' = (crossed \/ OtherWorks(r))
  /\ UNCHANGED <<onDisk, unseen, skip, watcher>>

\* saveConfigToDisk.
Marshal(r) ==
  /\ api[r].pc = "marshal"
  /\ Calls(r, [api[r] EXCEPT !.pc = "flag", !.data = memory])
  /\ UNCHANGED <<onDisk, unseen, skip, memory, inUse, watcher, edits, crossed>>

SetFlag(r) ==
  /\ api[r].pc = "flag"
  /\ skip' = TRUE
  /\ Calls(r, [api[r] EXCEPT !.pc = "truncate"])
  /\ UNCHANGED <<onDisk, unseen, memory, inUse, watcher, edits, crossed>>

\* handleConfigYAML writes what is valid and loads it; handleConfigReload only loads.
PutFile(r) ==
  /\ ~Working(r) /\ MayChange
  /\ \E v \in Value : Calls(r, [pc |-> "truncate", puts |-> TRUE, data |-> Filled(v)])
  /\ edits' = edits + 1 /\ crossed' = (crossed \/ OtherWorks(r))
  /\ UNCHANGED <<onDisk, unseen, skip, memory, inUse, watcher>>

AskReload(r) ==
  /\ ~Working(r) /\ MayChange
  /\ Calls(r, [Quiet EXCEPT !.pc = "load"])
  /\ edits' = edits + 1 /\ crossed' = (crossed \/ OtherWorks(r))
  /\ UNCHANGED <<onDisk, unseen, skip, memory, inUse, watcher>>

\* Either half of the writing may fail; a save only logs it.
Truncate(r) ==
  /\ api[r].pc = "truncate"
  /\ \/ /\ Writes(Empty, Writer(r))
        /\ Calls(r, [api[r] EXCEPT !.pc = "fill"])
        /\ crossed' = (crossed \/ unseen \ {Writer(r)} # {} \/ OtherWorks(r))
     \/ /\ Calls(r, Quiet) /\ crossed' = TRUE
        /\ UNCHANGED <<onDisk, unseen>>
  /\ UNCHANGED <<skip, memory, inUse, watcher, edits>>

Fill(r) ==
  /\ api[r].pc = "fill"
  /\ \/ /\ Writes(api[r].data, Writer(r))
        /\ Calls(r, IF api[r].puts THEN [Quiet EXCEPT !.pc = "load"] ELSE Quiet)
        /\ UNCHANGED crossed
     \/ /\ Calls(r, Quiet) /\ crossed' = TRUE
        /\ UNCHANGED <<onDisk, unseen>>
  /\ UNCHANGED <<skip, memory, inUse, watcher, edits>>

LoadFile(r) ==
  /\ api[r].pc = "load"
  /\ Calls(r, IF onDisk = Broken THEN Quiet ELSE [Quiet EXCEPT !.pc = "install", !.data = onDisk])
  /\ UNCHANGED <<onDisk, unseen, skip, memory, inUse, watcher, edits, crossed>>

\* The limits per service stay as they are.
InstallLoaded(r) ==
  /\ api[r].pc = "install"
  /\ memory' = api[r].data
  /\ inUse' = [api[r].data EXCEPT !["limits"] = inUse["limits"]]
  /\ Calls(r, Quiet)
  /\ UNCHANGED <<onDisk, unseen, skip, watcher, edits, crossed>>

EditFile ==
  /\ MayChange
  /\ \E c \in {Filled(v) : v \in Value} \cup {Broken} :
       /\ Writes(c, "other")
       /\ crossed' = \/ crossed \/ "router" \in unseen \/ (c = Broken /\ memory # inUse)
                     \/ watcher.pc # "quiet" \/ \E r \in Request : Working(r)
  /\ edits' = edits + 1
  /\ UNCHANGED <<skip, memory, inUse, api, watcher>>

-----------------------------------------------------------------------------
\* What it finds at its first look it takes for what was loaded.
StartWatching ==
  /\ watcher.pc = "start"
  /\ watcher' = [watcher EXCEPT !.pc = "quiet"]
  /\ unseen' = {}
  /\ UNCHANGED <<onDisk, skip, memory, inUse, api, edits, crossed>>

\* The modification time is after lastMod, which becomes it.
Notice ==
  /\ watcher.pc = "quiet" /\ unseen # {}
  /\ watcher' = [watcher EXCEPT !.pc = "flag"]
  /\ unseen' = {}
  /\ crossed' = (crossed \/ ("other" \in unseen /\ \E r \in Request : Working(r)))
  /\ UNCHANGED <<onDisk, skip, memory, inUse, api, edits>>

\* Mutant of CheckFlag: the flag stays set.
CheckFlagOnly ==
  /\ watcher.pc = "flag"
  /\ watcher' = [watcher EXCEPT !.pc = IF skip THEN "quiet" ELSE "load"]
  /\ UNCHANGED <<onDisk, unseen, skip, memory, inUse, api, edits, crossed>>

CheckFlag ==
  /\ watcher.pc = "flag"
  /\ watcher' = [watcher EXCEPT !.pc = IF skip THEN "quiet" ELSE "load"]
  /\ skip' = FALSE
  /\ UNCHANGED <<onDisk, unseen, memory, inUse, api, edits, crossed>>

ReloadFile ==
  /\ watcher.pc = "load"
  /\ watcher' = IF onDisk = Broken THEN [pc |-> "quiet", data |-> Empty]
                ELSE [pc |-> "install", data |-> onDisk]
  /\ crossed' = (crossed \/ \E r \in Request : Working(r))
  /\ UNCHANGED <<onDisk, unseen, skip, memory, inUse, api, edits>>

InstallReloaded ==
  /\ watcher.pc = "install"
  /\ memory' = watcher.data /\ inUse' = watcher.data
  /\ watcher' = [pc |-> "quiet", data |-> Empty]
  /\ UNCHANGED <<onDisk, unseen, skip, api, edits, crossed>>

WatchStep == StartWatching \/ Notice \/ CheckFlag \/ ReloadFile \/ InstallReloaded

CallStep(r) ==
  Marshal(r) \/ SetFlag(r) \/ Truncate(r) \/ Fill(r) \/ LoadFile(r) \/ InstallLoaded(r)

ChangeConfig == EditFile \/ \E r \in Request : ChangePiece(r) \/ PutFile(r) \/ AskReload(r)

\* The router has loaded the file, and starts to watch it.
ConfigInit ==
  /\ onDisk \in {Filled(v) : v \in Value} /\ unseen = {} /\ skip = FALSE
  /\ memory = onDisk /\ inUse = onDisk
  /\ api = [r \in Request |-> Quiet] /\ watcher = [pc |-> "start", data |-> Empty]
  /\ edits = 0 /\ crossed = FALSE

ConfigTypeOK ==
  /\ onDisk \in Config \cup {Broken} /\ unseen \subseteq {"router", "other"} /\ skip \in BOOLEAN
  /\ memory \in Config /\ inUse \in Config
  /\ api \in [Request -> [pc : {"quiet", "marshal", "flag", "truncate", "fill", "load", "install"},
                          puts : BOOLEAN, data : Config]]
  /\ watcher \in [pc : {"start", "quiet", "flag", "load", "install"}, data : Config]
  /\ edits \in 0..MaxEdits /\ crossed \in BOOLEAN

=============================================================================
