-------------------------- MODULE ArtifactRegistry --------------------------
(***************************************************************************)
(* The local artifact registry: `offer` processes that register a file     *)
(* under a random token, `preview` processes that resolve a token or       *)
(* @latest and then load the file, and other programs that rewrite,        *)
(* replace or remove that file meanwhile. Every open, stat, read, persist  *)
(* and comparison is a step of its own. One canonical path is modelled.    *)
(***************************************************************************)
EXTENDS Naturals, Sequences, FiniteSets

CONSTANTS Offers,       \* processes that run Registry::register
          Previews,     \* processes that run load_artifact on a reference
          Tokens,       \* what random_token can return
          Chunks,       \* values of one buffer of file content
          Inodes,       \* files the file system can hold
          MaxChunks,    \* bound on the length of a file
          Limit,        \* MAX_ARTIFACT_INPUT_BYTES_V1, in chunks
          MaxTries,     \* attempts to find a free token (16 in the code)
          MaxWrites,    \* bound on the changes other programs make
          None

ASSUME BoundAssumption ==
    /\ Limit \in Nat /\ MaxChunks \in Nat /\ MaxTries \in Nat \ {0} /\ MaxWrites \in Nat

Processes == Offers \cup Previews
Contents == UNION {[1..n -> Chunks] : n \in 0..MaxChunks}

(* What FileIdentity records of a file: its inode, its modification time,  *)
(* its length, and the bytes that were hashed (SHA-256 tells any two       *)
(* contents apart). Device and path are the same for every entry here.     *)
Identities == [ino : Inodes, mtime : Nat, size : Nat, hash : Seq(Chunks)]

ASSUME ProcessAssumption ==
    /\ Offers \cap Previews = {}
    /\ None \notin Tokens \cup Inodes \cup Chunks \cup Identities

VARIABLES
    path,       \* the inode the path names, or None
    file,       \* content and modification time of each inode
    writes,     \* changes made so far: each gets the next modification time
    written,    \* history: the whole content each modification time stands for
    entries,    \* refs/TOKEN.json: the identity it records, or None
    latest,     \* the token in the file `latest`, or None
    pc,         \* where each process is
    token,      \* the token it registers or resolves, or None
    fd,         \* the inode it has open, or None
    stat,       \* modification time and length it has read from the inode
    data,       \* the content it has read so far
    tries,      \* tokens an offer has tried
    before      \* history: tokens registered before the process began

fsvars == <<path, file, writes, written>>
regvars == <<entries, latest>>
vars == <<path, file, writes, written, entries, latest, pc, token, fd, stat, data, tries, before>>

Stats == [mtime : Nat, size : Nat]
OfferStates == {"idle", "open", "stat", "hash", "persist", "latest", "offered"}
PreviewStates == {"idle", "pointer", "entry", "open", "stat", "hash", "compare",
                  "reopen", "restat", "load", "shown"}
Ended == {"failed", "killed"}

TypeOK ==
    /\ path \in Inodes \cup {None}
    /\ file \in [Inodes -> [content : Seq(Chunks), mtime : Nat]]
    /\ writes \in Nat
    /\ written \in [0..writes -> Seq(Chunks)]
    /\ entries \in [Tokens -> Identities \cup {None}]
    /\ latest \in Tokens \cup {None}
    /\ pc \in [Processes -> OfferStates \cup PreviewStates \cup Ended]
    /\ token \in [Processes -> Tokens \cup {None}]
    /\ fd \in [Processes -> Inodes \cup {None}]
    /\ stat \in [Processes -> Stats]
    /\ data \in [Processes -> Seq(Chunks)]
    /\ tries \in [Processes -> Nat]
    /\ before \in [Processes -> SUBSET Tokens]

Init ==
    /\ \E i \in Inodes, c \in Contents :
         /\ path = i
         /\ file = [j \in Inodes |-> [content |-> c, mtime |-> 0]]
         /\ written = [m \in {0} |-> c]
    /\ writes = 0
    /\ entries = [t \in Tokens |-> None]
    /\ latest = None
    /\ pc = [p \in Processes |-> "idle"]
    /\ token = [p \in Processes |-> None]
    /\ fd = [p \in Processes |-> None]
    /\ stat = [p \in Processes |-> [mtime |-> 0, size |-> 0]]
    /\ data = [p \in Processes |-> <<>>]
    /\ tries = [p \in Processes |-> 0]
    /\ before = [p \in Processes |-> {}]

-----------------------------------------------------------------------------
(* Other programs: every change of the file gets a new modification time.  *)

InPlaceWrite(c) ==
    /\ path # None /\ writes < MaxWrites
    /\ writes' = writes + 1
    /\ file' = [file EXCEPT ![path] = [content |-> c, mtime |-> writes + 1]]
    /\ written' = [m \in 0..(writes + 1) |-> IF m = writes + 1 THEN c ELSE written[m]]
    /\ UNCHANGED <<path, regvars, pc, token, fd, stat, data, tries, before>>

(* A rename over the path; the inode number may be one that was freed. *)
Replace(c, i) ==
    /\ writes < MaxWrites
    /\ i # path /\ \A p \in Processes : fd[p] # i
    /\ path' = i
    /\ writes' = writes + 1
    /\ file' = [file EXCEPT ![i] = [content |-> c, mtime |-> writes + 1]]
    /\ written' = [m \in 0..(writes + 1) |-> IF m = writes + 1 THEN c ELSE written[m]]
    /\ UNCHANGED <<regvars, pc, token, fd, stat, data, tries, before>>

Remove ==
    /\ path # None
    /\ path' = None
    /\ UNCHANGED <<file, writes, written, regvars, pc, token, fd, stat, data, tries, before>>

-----------------------------------------------------------------------------
(* Steps that register, resolve and load_artifact have in common.          *)

Goto(p, s) == pc' = [pc EXCEPT ![p] = s]

(* An error return: the process exits and its descriptor is closed. *)
Fail(p) == Goto(p, "failed") /\ fd' = [fd EXCEPT ![p] = None]

(* File::open of the path as it is now. A missing file is an error in      *)
(* every caller; so is an I/O error.                                       *)
OpenSource(p, from, to) ==
    /\ pc[p] = from
    /\ \/ /\ path # None
          /\ fd' = [fd EXCEPT ![p] = path]
          /\ Goto(p, to)
       \/ Fail(p)
    /\ data' = [data EXCEPT ![p] = <<>>]
    /\ UNCHANGED <<fsvars, regvars, token, stat, tries, before>>

(* metadata of the open file, and enforce_artifact_limit. *)
Stat(p, from, to) ==
    LET f == file[fd[p]] IN
    /\ pc[p] = from
    /\ stat' = [stat EXCEPT ![p] = [mtime |-> f.mtime, size |-> Len(f.content)]]
    /\ IF Len(f.content) > Limit
       THEN Fail(p)
       ELSE Goto(p, to) /\ UNCHANGED fd
    /\ UNCHANGED <<fsvars, regvars, token, data, tries, before>>

(* One read of hash_file: the loop runs to end of file, however long the   *)
(* file has become since the stat.                                         *)
HashChunk(p, to) ==
    LET c == file[fd[p]].content IN
    /\ pc[p] = "hash"
    /\ IF Len(data[p]) < Len(c)
       THEN data' = [data EXCEPT ![p] = Append(@, c[Len(@) + 1])] /\ UNCHANGED pc
       ELSE Goto(p, to) /\ UNCHANGED data
    /\ UNCHANGED <<fsvars, regvars, token, fd, stat, tries, before>>

(* file_identity *)
Identity(p) ==
    [ino |-> fd[p], mtime |-> stat[p].mtime, size |-> stat[p].size, hash |-> data[p]]

(* A signal. An I/O error while reading the file, `latest` or an entry     *)
(* ends the process with the same effect.                                  *)
Kill(p) ==
    /\ pc[p] \notin Ended \cup {"idle", "offered", "shown"}
    /\ Goto(p, "killed")
    /\ fd' = [fd EXCEPT ![p] = None]
    /\ UNCHANGED <<fsvars, regvars, token, stat, data, tries, before>>

-----------------------------------------------------------------------------
(* Registry::register                                                      *)

Offered == {token[p] : p \in {q \in Offers : pc[q] = "offered"}}

(* ensure_dirs and canonicalize, which may fail. *)
StartOffer(o) ==
    /\ pc[o] = "idle"
    /\ Goto(o, "open") \/ Goto(o, "failed")
    /\ before' = [before EXCEPT ![o] = Offered]
    /\ UNCHANGED <<fsvars, regvars, token, fd, stat, data, tries>>

(* Fault: the entry replaces one that has the same token. *)
PersistEntryReplacing(o) ==
    /\ pc[o] = "persist"
    /\ \E t \in Tokens : /\ entries' = [entries EXCEPT ![t] = Identity(o)]
                         /\ token' = [token EXCEPT ![o] = t]
    /\ Goto(o, "latest")
    /\ UNCHANGED <<fsvars, latest, fd, stat, data, tries, before>>

(* Fault: a token that is taken counts as persisted. *)
PersistEntryTaken(o) ==
    /\ pc[o] = "persist"
    /\ \E t \in Tokens :
         /\ entries' = IF entries[t] = None
                       THEN [entries EXCEPT ![t] = Identity(o)] ELSE entries
         /\ token' = [token EXCEPT ![o] = t]
    /\ Goto(o, "latest")
    /\ UNCHANGED <<fsvars, latest, fd, stat, data, tries, before>>

(* Fault: the pointer is written before the entry. *)
PersistEntryPointerFirst(o) ==
    \/ /\ pc[o] = "persist"
       /\ \E t \in Tokens : latest' = t /\ token' = [token EXCEPT ![o] = t]
       /\ Goto(o, "entry")
       /\ UNCHANGED <<fsvars, entries, fd, stat, data, tries, before>>
    \/ /\ pc[o] = "entry"
       /\ entries' = [entries EXCEPT ![token[o]] = Identity(o)]
       /\ Goto(o, "offered")
       /\ UNCHANGED <<fsvars, latest, token, fd, stat, data, tries, before>>

(* One turn of the loop: a random token, the whole entry written to a      *)
(* temporary file, and persist_noclobber. A taken token is tried again     *)
(* with another one; any other error ends the registration.                *)
PersistEntry(o) ==
    /\ pc[o] = "persist"
    /\ \/ \E t \in Tokens :
            IF entries[t] = None
            THEN /\ entries' = [entries EXCEPT ![t] = Identity(o)]
                 /\ token' = [token EXCEPT ![o] = t]
                 /\ Goto(o, "latest")
                 /\ UNCHANGED <<tries, fd>>
            ELSE /\ tries' = [tries EXCEPT ![o] = @ + 1]
                 /\ IF tries[o] + 1 = MaxTries
                    THEN Fail(o)
                    ELSE UNCHANGED <<pc, fd>>
                 /\ UNCHANGED <<entries, token>>
       \/ Fail(o) /\ UNCHANGED <<entries, token, tries>>
    /\ UNCHANGED <<fsvars, latest, stat, data, before>>

(* Fault: an existing pointer is kept. *)
WriteLatestNoClobber(o) ==
    /\ pc[o] = "latest"
    /\ latest' = IF latest = None THEN token[o] ELSE latest
    /\ Goto(o, "offered") /\ fd' = [fd EXCEPT ![o] = None]
    /\ UNCHANGED <<fsvars, entries, token, stat, data, tries, before>>

(* write_latest: a temporary file renamed over `latest`, which may fail    *)
(* after the entry is already there.                                       *)
WriteLatest(o) ==
    /\ pc[o] = "latest"
    /\ \/ latest' = token[o] /\ Goto(o, "offered") /\ fd' = [fd EXCEPT ![o] = None]
       \/ Fail(o) /\ UNCHANGED latest
    /\ UNCHANGED <<fsvars, entries, token, stat, data, tries, before>>

OfferStep(o) ==
    \/ StartOffer(o)
    \/ OpenSource(o, "open", "stat")
    \/ Stat(o, "stat", "hash")
    \/ HashChunk(o, "persist")
    \/ PersistEntry(o)
    \/ WriteLatest(o)

-----------------------------------------------------------------------------
(* Registry::resolve, resolve_latest and load_artifact                     *)

(* A preview is asked for @latest or for a token, valid or not. *)
StartPreview(v) ==
    /\ pc[v] = "idle"
    /\ \/ Goto(v, "pointer") /\ UNCHANGED token
       \/ \E t \in Tokens : token' = [token EXCEPT ![v] = t] /\ Goto(v, "entry")
    /\ UNCHANGED <<fsvars, regvars, fd, stat, data, tries, before>>

ReadLatest(v) ==
    /\ pc[v] = "pointer"
    /\ IF latest = None
       THEN Fail(v) /\ UNCHANGED token
       ELSE token' = [token EXCEPT ![v] = latest] /\ Goto(v, "entry") /\ UNCHANGED fd
    /\ UNCHANGED <<fsvars, regvars, stat, data, tries, before>>

(* The entry is read, parsed and validated; a missing entry is an error. *)
ReadEntry(v) ==
    /\ pc[v] = "entry"
    /\ IF entries[token[v]] = None
       THEN Fail(v)
       ELSE Goto(v, "open") /\ UNCHANGED fd
    /\ UNCHANGED <<fsvars, regvars, token, stat, data, tries, before>>

(* Fault: only the content is compared. *)
CompareHash(v) ==
    /\ pc[v] = "compare"
    /\ fd' = [fd EXCEPT ![v] = None]
    /\ IF data[v] = entries[token[v]].hash THEN Goto(v, "reopen") ELSE Goto(v, "failed")
    /\ UNCHANGED <<fsvars, regvars, token, stat, data, tries, before>>

(* The recorded identity against the one just observed. The descriptor is  *)
(* closed: resolve returns the path.                                       *)
Compare(v) ==
    /\ pc[v] = "compare"
    /\ fd' = [fd EXCEPT ![v] = None]
    /\ IF Identity(v) = entries[token[v]] THEN Goto(v, "reopen") ELSE Goto(v, "failed")
    /\ UNCHANGED <<fsvars, regvars, token, stat, data, tries, before>>

(* load_artifact reads at most Limit + 1 of the file it has opened itself  *)
(* and refuses more than Limit.                                            *)
LoadChunk(v) ==
    LET c == file[fd[v]].content IN
    /\ pc[v] = "load"
    /\ IF Len(data[v]) < Len(c) /\ Len(data[v]) < Limit + 1
       THEN data' = [data EXCEPT ![v] = Append(@, c[Len(@) + 1])] /\ UNCHANGED <<pc, fd>>
       ELSE /\ UNCHANGED data
            /\ IF Len(data[v]) > Limit
               THEN Fail(v)
               ELSE Goto(v, "shown") /\ fd' = [fd EXCEPT ![v] = None]
    /\ UNCHANGED <<fsvars, regvars, token, stat, tries, before>>

PreviewStep(v) ==
    \/ StartPreview(v) \/ ReadLatest(v) \/ ReadEntry(v)
    \/ OpenSource(v, "open", "stat")
    \/ Stat(v, "stat", "hash")
    \/ HashChunk(v, "compare")
    \/ Compare(v)
    \/ OpenSource(v, "reopen", "restat")
    \/ Stat(v, "restat", "load")
    \/ LoadChunk(v)

Next ==
    \/ \E c \in Contents : InPlaceWrite(c) \/ \E i \in Inodes : Replace(c, i)
    \/ Remove
    \/ \E o \in Offers : OfferStep(o) \/ Kill(o)
    \/ \E v \in Previews : PreviewStep(v) \/ Kill(v)

Spec == Init /\ [][Next]_vars

-----------------------------------------------------------------------------
(* Properties.                                                             *)

(* An entry, once there, is never rewritten or removed: concurrent offers  *)
(* that draw the same token do not take it from one another.               *)
EntriesAreImmutable ==
    [][\A t \in Tokens : entries[t] # None => entries'[t] = entries[t]]_vars

(* The token an offer prints names the identity that this offer observed,  *)
(* not one of another offer.                                               *)
TokenNamesItsOffer ==
    \A o \in Offers : pc[o] \in {"latest", "offered"} =>
        /\ entries[token[o]] # None
        /\ entries[token[o]].hash = data[o] /\ entries[token[o]].mtime = stat[o].mtime

(* `latest` never names a token whose entry is not there, also when an     *)
(* offer is killed between its two persists.                               *)
LatestIsComplete == latest # None => entries[latest] # None

(* Once an offer has returned, `latest` does not go back to a registration *)
(* that had completed before that offer began.                             *)
LatestNeverGoesBack ==
    \A o \in Offers : pc[o] = "offered" => latest \notin before[o]

(* A reference that resolves stands for a content the file had as a whole  *)
(* at the recorded modification time: an identity put together from two    *)
(* states of the file, because it changed between stat and hash or between *)
(* two reads, is never confirmed.                                          *)
ResolvedContentWasWhole ==
    \A v \in Previews : pc[v] \in {"reopen", "restat", "load", "shown"} =>
        LET e == entries[token[v]] IN written[e.mtime] = e.hash

-----------------------------------------------------------------------------
(* A statement of the repository that these steps do not keep.             *)

(* "Replacing the path target never silently rebinds an existing token." *)
ShowsWhatWasRegistered ==
    \A v \in Previews : pc[v] = "shown" => data[v] = entries[token[v]].hash
=============================================================================
