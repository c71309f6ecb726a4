----------------------------- MODULE OutputFile -----------------------------
(***************************************************************************)
(* write_output with --output PATH: processes that publish a document      *)
(* under one name, while other programs create or remove that name, a      *)
(* system call fails, a process is killed, or the machine loses power and  *)
(* with it whatever has not reached the disk.                              *)
(***************************************************************************)
EXTENDS Naturals

CONSTANTS Writers,       \* processes of this program that write PATH
          MaxOthers      \* bound on names other programs create

ASSUME OutputAssumption == MaxOthers \in Nat /\ {"nothing", "dangling", "other"} \cap Writers = {}

VARIABLES
    at,       \* what PATH names: nothing, a dangling link, another file, a writer's document
    others,   \* how often another program has created the name
    pc,       \* per writer
    temp,     \* whether its temporary file has a name of its own
    content,  \* what its file holds: nothing yet, a part, or the whole document
    synced,   \* whether that is on the disk
    power,    \* FALSE once the power has failed
    taken     \* history: the writers whose name the power failure took back

vars == <<at, others, pc, temp, content, synced, power, taken>>

Names == {"nothing", "dangling", "other"} \cup Writers
Ended == {"done", "failed", "killed"}

TypeOK ==
    /\ at \in Names
    /\ others \in 0 .. MaxOthers
    /\ pc \in [Writers -> {"check", "create", "write", "sync", "persist"} \cup Ended]
    /\ temp \in [Writers -> BOOLEAN]
    /\ content \in [Writers -> {"nothing", "part", "whole"}]
    /\ synced \in [Writers -> BOOLEAN]
    /\ power \in BOOLEAN
    /\ taken \subseteq Writers

Init ==
    /\ at \in {"nothing", "dangling", "other"}
    /\ others = 0
    /\ pc = [w \in Writers |-> "check"]
    /\ temp = [w \in Writers |-> FALSE]
    /\ content = [w \in Writers |-> "nothing"]
    /\ synced = [w \in Writers |-> FALSE]
    /\ power = TRUE
    /\ taken = {}

-----------------------------------------------------------------------------
Goto(w, next) == pc' = [pc EXCEPT ![w] = next]

(* path.exists() follows a link: one that leads nowhere does not exist. *)
Check(w) ==
    /\ pc[w] = "check"
    /\ Goto(w, IF at \in {"nothing", "dangling"} THEN "create" ELSE "failed")
    /\ UNCHANGED <<at, others, temp, content, synced, power, taken>>

(* NamedTempFile::new_in *)
Create(w) ==
    /\ pc[w] = "create"
    /\ \/ Goto(w, "write") /\ temp' = [temp EXCEPT ![w] = TRUE]
       \/ Goto(w, "failed") /\ UNCHANGED temp
    /\ UNCHANGED <<at, others, content, synced, power, taken>>

(* A call fails: the temporary file is dropped and its name removed. *)
GiveUp(w) ==
    /\ Goto(w, "failed")
    /\ temp' = [temp EXCEPT ![w] = FALSE]

(* write_all and flush: a killed or failing writer leaves a part. *)
Write(w) ==
    /\ pc[w] = "write"
    /\ \/ /\ content[w] = "nothing"
          /\ content' = [content EXCEPT ![w] = "part"]
          /\ UNCHANGED <<pc, temp>>
       \/ /\ content' = [content EXCEPT ![w] = "whole"]
          /\ Goto(w, "sync")
          /\ UNCHANGED temp
       \/ GiveUp(w) /\ UNCHANGED content
    /\ UNCHANGED <<at, others, synced, power, taken>>

(* Fault: the document is left in the page cache. *)
SyncNothing(w) ==
    /\ pc[w] = "sync"
    /\ Goto(w, "persist")
    /\ UNCHANGED <<at, others, temp, content, synced, power, taken>>

(* sync_all *)
Sync(w) ==
    /\ pc[w] = "sync"
    /\ \/ /\ synced' = [synced EXCEPT ![w] = TRUE]
          /\ Goto(w, "persist")
          /\ UNCHANGED temp
       \/ GiveUp(w) /\ UNCHANGED synced
    /\ UNCHANGED <<at, others, content, power, taken>>

(* Fault: persist, which replaces what the name held since the check. *)
PersistReplacing(w) ==
    /\ pc[w] = "persist"
    /\ at' = w
    /\ temp' = [temp EXCEPT ![w] = FALSE]
    /\ Goto(w, "done")
    /\ UNCHANGED <<others, content, synced, power, taken>>

(* Fault: the refusal is taken for success. *)
PersistIgnoring(w) ==
    /\ pc[w] = "persist"
    /\ at' = IF at = "nothing" THEN w ELSE at
    /\ temp' = [temp EXCEPT ![w] = FALSE]
    /\ Goto(w, "done")
    /\ UNCHANGED <<others, content, synced, power, taken>>

(* persist_noclobber: one system call that refuses any existing name, a    *)
(* dangling link's too.                                                    *)
Persist(w) ==
    /\ pc[w] = "persist"
    /\ \/ /\ at = "nothing"
          /\ at' = w
          /\ temp' = [temp EXCEPT ![w] = FALSE]
          /\ Goto(w, "done")
       \/ GiveUp(w) /\ UNCHANGED at
    /\ UNCHANGED <<others, content, synced, power, taken>>

-----------------------------------------------------------------------------
(* Outside the program. *)

Kill(w) ==
    /\ pc[w] \notin Ended
    /\ Goto(w, "killed")
    /\ UNCHANGED <<at, others, temp, content, synced, power, taken>>

(* Another program makes the name, or removes what is not a writer's.      *)
OtherCreates ==
    /\ at \in {"nothing", "dangling"} /\ others < MaxOthers
    /\ at' = "other"
    /\ others' = others + 1
    /\ UNCHANGED <<pc, temp, content, synced, power, taken>>

OtherRemoves ==
    /\ at \in {"dangling", "other"}
    /\ at' = "nothing"
    /\ UNCHANGED <<others, pc, temp, content, synced, power, taken>>

(* What was not synced may be lost, and so may a name given to a file: the *)
(* directory is never synced.                                              *)
PowerFails ==
    /\ power
    /\ power' = FALSE
    /\ pc' = [w \in Writers |-> IF pc[w] \in Ended THEN pc[w] ELSE "killed"]
    /\ content' \in [Writers -> {"nothing", "part", "whole"}]
    /\ \A w \in Writers : synced[w] => content'[w] = content[w]
    /\ at' = at \/ (at \in Writers /\ at' = "nothing")
    /\ taken' = IF at' = at THEN taken ELSE taken \cup {at}
    /\ UNCHANGED <<others, temp, synced>>

Next ==
    \/ \E w \in Writers :
           Check(w) \/ Create(w) \/ Write(w) \/ Sync(w) \/ Persist(w) \/ Kill(w)
    \/ OtherCreates \/ OtherRemoves \/ PowerFails

Spec == Init /\ [][Next]_vars

-----------------------------------------------------------------------------
(* A document under the output's name is whole and on the disk: a reader   *)
(* never opens a part, after a crash or a power failure either             *)
(* (write_output syncs before it gives the name).                          *)
OutputIsWhole ==
    at \in Writers => content[at] = "whole" /\ synced[at]

(* A writer that succeeds has the name, and so at most one does, although  *)
(* every one of them saw the name free. Only a power failure takes it back *)
(* from a writer that was told it had succeeded.                           *)
SuccessIsExclusive ==
    \A w \in Writers : pc[w] = "done" => at = w \/ w \in taken

(* A writer that ends by itself leaves no temporary file next to the       *)
(* output, whichever of its calls failed (NamedTempFile's drop).           *)
NoTemporaryLeft ==
    \A w \in Writers : pc[w] \in {"done", "failed"} => ~temp[w]

(* A name that exists is never given to another file by this program: the  *)
(* check at the start is stale by then, the refusal is persist_noclobber's. *)
NothingIsReplaced ==
    [][at' # at => "nothing" \in {at, at'} \/ <<at, at'>> = <<"dangling", "other">>]_vars
=============================================================================
