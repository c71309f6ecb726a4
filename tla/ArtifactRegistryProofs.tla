----------------------- MODULE ArtifactRegistryProofs -----------------------
(***************************************************************************)
(* Proofs about ArtifactRegistry for any number of offers, previews,       *)
(* tokens and inodes, any file contents and any number of changes.         *)
(***************************************************************************)
EXTENDS ArtifactRegistry, TLAPS

(* The programs that change the file do not touch the registry. *)
FileStep == \/ \E c \in Contents : InPlaceWrite(c) \/ \E i \in Inodes : Replace(c, i)
            \/ Remove

(* A process works on a descriptor only while it holds one. *)
Holding == {"stat", "hash", "persist", "compare", "restat", "load"}
HoldsFd == \A p \in Processes : pc[p] \in Holding => fd[p] # None

(* A process past the choice of its token has one. *)
HasToken ==
    /\ \A o \in Offers : pc[o] \in {"latest", "offered"} => token[o] # None
    /\ \A v \in Previews : pc[v] \in PreviewStates \ {"idle", "pointer"} => token[v] # None

(* Every step is one of these. *)
LEMMA NextCases ==
    ASSUME [Next]_vars
    PROVE  \/ FileStep
           \/ \E p \in Processes : Kill(p)
           \/ \E o \in Offers : OfferStep(o)
           \/ \E v \in Previews : PreviewStep(v)
           \/ UNCHANGED vars
  BY DEF Next, FileStep, Processes

(* Every content is a sequence of chunks. *)
LEMMA ContentsAreSequences == Contents \subseteq Seq(Chunks)
  BY BoundAssumption DEF Contents

(* Adding the chunk that a read returns to what one process has read. *)
LEMMA ReadType ==
    ASSUME NEW S, NEW I, NEW d \in [I -> Seq(S)], NEW i \in I,
           NEW c \in Seq(S), Len(d[i]) < Len(c)
    PROVE  [d EXCEPT ![i] = Append(d[i], c[Len(d[i]) + 1])] \in [I -> Seq(S)]
<1>1. d[i] \in Seq(S)
  OBVIOUS
<1>2. Len(d[i]) + 1 \in 1..Len(c)
  BY <1>1
<1>3. c[Len(d[i]) + 1] \in S
  BY <1>2
<1>4. Append(d[i], c[Len(d[i]) + 1]) \in Seq(S)
  BY <1>1, <1>3
<1>5. QED
  BY <1>4

(* Changes of the file keep the types of the file system. *)
LEMMA FileTypeStep == ASSUME TypeOK, FileStep PROVE TypeOK'
<1>1. ASSUME NEW c \in Contents, InPlaceWrite(c) PROVE TypeOK'
  BY <1>1, ContentsAreSequences DEF TypeOK, InPlaceWrite, regvars
<1>2. ASSUME NEW c \in Contents, NEW i \in Inodes, Replace(c, i) PROVE TypeOK'
  BY <1>2, ContentsAreSequences DEF TypeOK, Replace, regvars
<1>3. CASE Remove
  BY <1>3 DEF TypeOK, Remove, regvars
<1>4. QED
  BY <1>1, <1>2, <1>3 DEF FileStep

(* The steps that offers and previews share keep the types. *)
LEMMA SharedTypeStep ==
    ASSUME TypeOK, HoldsFd, NEW p \in Processes,
           NEW from \in OfferStates \cup PreviewStates, NEW to \in OfferStates \cup PreviewStates,
           \/ OpenSource(p, from, to)
           \/ Stat(p, from, to) /\ from \in Holding
           \/ HashChunk(p, to)
           \/ Kill(p)
    PROVE  TypeOK'
<1>1. CASE OpenSource(p, from, to)
  <2>1. /\ pc' \in [Processes -> OfferStates \cup PreviewStates \cup Ended]
        /\ fd' \in [Processes -> Inodes \cup {None}]
    BY ZenonT(40), <1>1 DEF TypeOK, OpenSource, Fail, Goto, Ended
  <2>2. data' \in [Processes -> Seq(Chunks)]
    BY <1>1 DEF TypeOK, OpenSource
  <2>3. QED
    BY <1>1, <2>1, <2>2 DEF TypeOK, OpenSource, fsvars, regvars
<1>2. CASE Stat(p, from, to) /\ from \in Holding
  <2>1. /\ pc' \in [Processes -> OfferStates \cup PreviewStates \cup Ended]
        /\ fd' \in [Processes -> Inodes \cup {None}]
    BY <1>2 DEF TypeOK, Stat, Fail, Goto, Ended
  <2>2. fd[p] \in Inodes
    BY <1>2 DEF TypeOK, HoldsFd, Stat
  <2>3. [mtime |-> file[fd[p]].mtime, size |-> Len(file[fd[p]].content)] \in Stats
    BY <2>2 DEF TypeOK, Stats
  <2>4. stat' \in [Processes -> Stats]
    BY <1>2, <2>3 DEF TypeOK, Stat
  <2>5. QED
    BY <1>2, <2>1, <2>4 DEF TypeOK, Stat, fsvars, regvars
<1>3. CASE HashChunk(p, to)
  <2>1. pc' \in [Processes -> OfferStates \cup PreviewStates \cup Ended]
    BY <1>3 DEF TypeOK, HashChunk, Goto
  <2>2. fd[p] \in Inodes
    BY <1>3 DEF TypeOK, HoldsFd, HashChunk, Holding
  <2>3. file[fd[p]].content \in Seq(Chunks) /\ data[p] \in Seq(Chunks)
    BY <2>2 DEF TypeOK
  <2>4. data' \in [Processes -> Seq(Chunks)]
    <3>1. \/ UNCHANGED data
          \/ /\ Len(data[p]) < Len(file[fd[p]].content)
             /\ data' = [data EXCEPT ![p] =
                           Append(data[p], file[fd[p]].content[Len(data[p]) + 1])]
      BY <1>3 DEF HashChunk
    <3>2. data \in [Processes -> Seq(Chunks)]
      BY DEF TypeOK
    <3>3. ASSUME Len(data[p]) < Len(file[fd[p]].content)
          PROVE  [data EXCEPT ![p] = Append(data[p], file[fd[p]].content[Len(data[p]) + 1])]
                   \in [Processes -> Seq(Chunks)]
      BY <2>3, <3>2, <3>3, ReadType
    <3>4. QED
      BY <3>1, <3>2, <3>3
  <2>5. QED
    BY <1>3, <2>1, <2>4 DEF TypeOK, HashChunk, fsvars, regvars
<1>4. CASE Kill(p)
  BY <1>4 DEF TypeOK, Kill, Goto, Ended, fsvars, regvars
<1>5. QED
  BY <1>1, <1>2, <1>3, <1>4

(* The steps of an offer keep the types. *)
LEMMA OfferTypeStep ==
    ASSUME TypeOK, HoldsFd, HasToken, NEW o \in Offers, OfferStep(o) PROVE TypeOK'
<1>1. o \in Processes
  BY DEF Processes
<1>2. CASE StartOffer(o)
  <2>1. Offered \subseteq Tokens
    BY DEF TypeOK, HasToken, Offered, Processes
  <2>2. before' \in [Processes -> SUBSET Tokens]
    BY <1>1, <1>2, <2>1 DEF TypeOK, StartOffer
  <2>3. QED
    BY <1>1, <1>2, <2>2 DEF TypeOK, StartOffer, Goto, OfferStates, Ended, fsvars, regvars
<1>3. CASE PersistEntry(o)
  <2>1. fd[o] \in Inodes
    BY <1>1, <1>3 DEF TypeOK, HoldsFd, PersistEntry, Holding
  <2>2. Identity(o) \in Identities
    BY <1>1, <2>1 DEF TypeOK, Identity, Identities, Stats
  <2>3. /\ entries' \in [Tokens -> Identities \cup {None}]
        /\ token' \in [Processes -> Tokens \cup {None}]
    BY <1>1, <1>3, <2>2 DEF TypeOK, PersistEntry
  <2>4. /\ pc' \in [Processes -> OfferStates \cup PreviewStates \cup Ended]
        /\ fd' \in [Processes -> Inodes \cup {None}]
    BY <1>1, <1>3 DEF TypeOK, PersistEntry, Fail, Goto, OfferStates, Ended
  <2>5. tries' \in [Processes -> Nat]
    <3>1. UNCHANGED tries \/ tries' = [tries EXCEPT ![o] = tries[o] + 1]
      BY <1>3 DEF PersistEntry
    <3>2. tries \in [Processes -> Nat]
      BY DEF TypeOK
    <3>3. QED
      BY <1>1, <3>1, <3>2
  <2>6. QED
    BY <1>3, <2>3, <2>4, <2>5 DEF TypeOK, PersistEntry, fsvars
<1>4. CASE WriteLatest(o)
  BY <1>1, <1>4 DEF TypeOK, WriteLatest, Fail, Goto, OfferStates, Ended, fsvars
<1>5. CASE OpenSource(o, "open", "stat") \/ Stat(o, "stat", "hash") \/ HashChunk(o, "persist")
  BY <1>1, <1>5, SharedTypeStep DEF OfferStates, Holding
<1>6. QED
  BY <1>2, <1>3, <1>4, <1>5 DEF OfferStep

(* The steps of a preview keep the types. *)
LEMMA PreviewTypeStep ==
    ASSUME TypeOK, HoldsFd, NEW v \in Previews, PreviewStep(v) PROVE TypeOK'
<1>1. v \in Processes
  BY DEF Processes
<1>2. CASE StartPreview(v) \/ ReadLatest(v) \/ ReadEntry(v)
  <2>1. /\ pc' \in [Processes -> OfferStates \cup PreviewStates \cup Ended]
        /\ token' \in [Processes -> Tokens \cup {None}]
        /\ fd' \in [Processes -> Inodes \cup {None}]
    BY ZenonT(40), <1>1, <1>2
       DEF TypeOK, StartPreview, ReadLatest, ReadEntry, Fail, Goto, PreviewStates, Ended
  <2>2. QED
    BY <1>2, <2>1 DEF TypeOK, StartPreview, ReadLatest, ReadEntry, fsvars, regvars
<1>3. CASE Compare(v)
  BY <1>1, <1>3 DEF TypeOK, Compare, Goto, PreviewStates, Ended, fsvars, regvars
<1>4. CASE LoadChunk(v)
  <2>1. /\ pc' \in [Processes -> OfferStates \cup PreviewStates \cup Ended]
        /\ fd' \in [Processes -> Inodes \cup {None}]
    BY <1>1, <1>4 DEF TypeOK, LoadChunk, Fail, Goto, PreviewStates, Ended
  <2>2. fd[v] \in Inodes
    BY <1>1, <1>4 DEF TypeOK, HoldsFd, LoadChunk, Holding
  <2>3. file[fd[v]].content \in Seq(Chunks) /\ data[v] \in Seq(Chunks)
    BY <1>1, <2>2 DEF TypeOK
  <2>4. data' \in [Processes -> Seq(Chunks)]
    <3>1. \/ UNCHANGED data
          \/ /\ Len(data[v]) < Len(file[fd[v]].content)
             /\ data' = [data EXCEPT ![v] =
                           Append(data[v], file[fd[v]].content[Len(data[v]) + 1])]
      BY <1>4 DEF LoadChunk
    <3>2. data \in [Processes -> Seq(Chunks)]
      BY DEF TypeOK
    <3>3. ASSUME Len(data[v]) < Len(file[fd[v]].content)
          PROVE  [data EXCEPT ![v] = Append(data[v], file[fd[v]].content[Len(data[v]) + 1])]
                   \in [Processes -> Seq(Chunks)]
      BY <1>1, <2>3, <3>2, <3>3, ReadType
    <3>4. QED
      BY <3>1, <3>2, <3>3
  <2>5. QED
    BY <1>4, <2>1, <2>4 DEF TypeOK, LoadChunk, fsvars, regvars
<1>5. CASE \/ OpenSource(v, "open", "stat") \/ Stat(v, "stat", "hash") \/ HashChunk(v, "compare")
           \/ OpenSource(v, "reopen", "restat") \/ Stat(v, "restat", "load")
  BY <1>1, <1>5, SharedTypeStep DEF PreviewStates, Holding
<1>6. QED
  BY <1>2, <1>3, <1>4, <1>5 DEF PreviewStep

(* A step of one process leaves the others where they are. *)
LEMMA OthersStay ==
    ASSUME TypeOK, NEW p \in Processes, NEW q \in Processes, p # q,
           \/ Kill(p)
           \/ p \in Offers /\ OfferStep(p)
           \/ p \in Previews /\ PreviewStep(p)
    PROVE  /\ pc'[q] = pc[q] /\ fd'[q] = fd[q] /\ token'[q] = token[q]
           /\ stat'[q] = stat[q] /\ data'[q] = data[q] /\ before'[q] = before[q]
<1>1. CASE Kill(p)
  BY <1>1 DEF TypeOK, Kill, Goto
<1>2. CASE StartOffer(p) \/ WriteLatest(p)
  BY <1>2 DEF TypeOK, StartOffer, WriteLatest, Fail, Goto
<1>3. CASE PersistEntry(p)
  BY <1>3 DEF TypeOK, PersistEntry, Fail, Goto
<1>4. CASE StartPreview(p) \/ ReadLatest(p) \/ ReadEntry(p) \/ Compare(p)
  BY <1>4 DEF TypeOK, StartPreview, ReadLatest, ReadEntry, Compare, Fail, Goto
<1>5. CASE LoadChunk(p)
  BY <1>5 DEF TypeOK, LoadChunk, Fail, Goto
<1>6. ASSUME NEW from, NEW to, OpenSource(p, from, to) \/ Stat(p, from, to)
      PROVE  /\ pc'[q] = pc[q] /\ fd'[q] = fd[q] /\ token'[q] = token[q]
             /\ stat'[q] = stat[q] /\ data'[q] = data[q] /\ before'[q] = before[q]
  BY <1>6 DEF TypeOK, OpenSource, Stat, Fail, Goto
<1>7. ASSUME NEW to, HashChunk(p, to)
      PROVE  /\ pc'[q] = pc[q] /\ fd'[q] = fd[q] /\ token'[q] = token[q]
             /\ stat'[q] = stat[q] /\ data'[q] = data[q] /\ before'[q] = before[q]
  BY <1>7 DEF TypeOK, HashChunk, Goto
<1>8. QED
  BY <1>1, <1>2, <1>3, <1>4, <1>5, <1>6, <1>7 DEF OfferStep, PreviewStep

(* What the process itself holds after its step. *)
LEMMA OwnStep ==
    ASSUME TypeOK, HoldsFd, HasToken, NEW p \in Processes,
           \/ Kill(p)
           \/ p \in Offers /\ OfferStep(p)
           \/ p \in Previews /\ PreviewStep(p)
    PROVE  /\ pc'[p] \in Holding => fd'[p] # None
           /\ p \in Offers /\ pc'[p] \in {"latest", "offered"} => token'[p] # None
           /\ p \in Previews /\ pc'[p] \in PreviewStates \ {"idle", "pointer"} => token'[p] # None
<1> USE ProcessAssumption DEF Holding, PreviewStates, Ended
<1>1. CASE Kill(p)
  BY <1>1 DEF TypeOK, Kill, Goto
<1>2. CASE p \in Offers /\ StartOffer(p)
  BY <1>2 DEF TypeOK, StartOffer, Goto
<1>3. CASE p \in Offers /\ PersistEntry(p)
  BY <1>3 DEF TypeOK, HoldsFd, PersistEntry, Fail, Goto
<1>4. CASE p \in Offers /\ WriteLatest(p)
  BY <1>4 DEF TypeOK, HasToken, WriteLatest, Fail, Goto
<1>5. CASE p \in Offers /\ OpenSource(p, "open", "stat")
  BY <1>5 DEF TypeOK, OpenSource, Fail, Goto
<1>6. CASE p \in Offers /\ Stat(p, "stat", "hash")
  BY <1>6 DEF TypeOK, HoldsFd, Stat, Fail, Goto
<1>7. CASE p \in Offers /\ HashChunk(p, "persist")
  BY <1>7 DEF TypeOK, HoldsFd, HashChunk, Goto
<1>8. CASE p \in Previews /\ (StartPreview(p) \/ ReadLatest(p) \/ ReadEntry(p))
  BY <1>8 DEF TypeOK, HasToken, StartPreview, ReadLatest, ReadEntry, Fail, Goto
<1>9. CASE p \in Previews /\ Compare(p)
  BY <1>9 DEF TypeOK, HasToken, Compare, Goto
<1>10. CASE p \in Previews /\ LoadChunk(p)
  BY <1>10 DEF TypeOK, HoldsFd, HasToken, LoadChunk, Fail, Goto
<1>11. CASE p \in Previews /\ (OpenSource(p, "open", "stat") \/ OpenSource(p, "reopen", "restat"))
  BY <1>11 DEF TypeOK, HasToken, OpenSource, Fail, Goto
<1>12. CASE p \in Previews /\ (Stat(p, "stat", "hash") \/ Stat(p, "restat", "load"))
  BY ZenonT(40), <1>12 DEF TypeOK, HoldsFd, HasToken, Stat, Fail, Goto
<1>13. CASE p \in Previews /\ HashChunk(p, "compare")
  BY <1>13 DEF TypeOK, HoldsFd, HasToken, HashChunk, Goto
<1>14. QED
  BY <1>1, <1>2, <1>3, <1>4, <1>5, <1>6, <1>7, <1>8, <1>9, <1>10, <1>11, <1>12, <1>13
  DEF OfferStep, PreviewStep

(* The type invariant with what it rests on. *)
Typed == TypeOK /\ HoldsFd /\ HasToken

LEMMA TypedStep == ASSUME Typed, [Next]_vars PROVE Typed'
<1> USE DEF Typed
<1>1. CASE FileStep
  <2>1. UNCHANGED <<pc, fd, token>>
    BY <1>1 DEF FileStep, InPlaceWrite, Replace, Remove
  <2>2. QED
    BY <1>1, <2>1, FileTypeStep DEF HoldsFd, HasToken
<1>2. ASSUME NEW p \in Processes,
             \/ Kill(p)
             \/ p \in Offers /\ OfferStep(p)
             \/ p \in Previews /\ PreviewStep(p)
      PROVE  Typed'
  <2>1. TypeOK'
    BY <1>2, SharedTypeStep, OfferTypeStep, PreviewTypeStep DEF OfferStates
  <2>2. HoldsFd'
    BY <1>2, OthersStay, OwnStep DEF HoldsFd
  <2>3. HasToken'
    BY <1>2, OthersStay, OwnStep DEF HasToken, Processes
  <2>4. QED
    BY <2>1, <2>2, <2>3
<1>3. CASE UNCHANGED vars
  BY <1>3 DEF vars, TypeOK, HoldsFd, HasToken
<1>4. QED
  BY <1>1, <1>2, <1>3, NextCases DEF Processes

LEMMA TypedInit == Init => Typed
<1> SUFFICES ASSUME Init PROVE Typed
  OBVIOUS
<1>1. PICK c \in Contents : /\ file = [j \in Inodes |-> [content |-> c, mtime |-> 0]]
                            /\ written = [m \in {0} |-> c]
  BY DEF Init
<1>2. /\ file \in [Inodes -> [content : Seq(Chunks), mtime : Nat]]
      /\ written \in [0..0 -> Seq(Chunks)]
  BY <1>1, ContentsAreSequences
<1>3. writes = 0 /\ written \in [0..writes -> Seq(Chunks)]
  BY <1>2 DEF Init
<1>4. /\ data \in [Processes -> Seq(Chunks)]
      /\ stat \in [Processes -> Stats]
      /\ pc \in [Processes -> OfferStates \cup PreviewStates \cup Ended]
  BY DEF Init, Stats, OfferStates
<1>5. TypeOK
  BY <1>2, <1>3, <1>4 DEF Init, TypeOK
<1>6. HoldsFd /\ HasToken
  BY DEF Init, HoldsFd, HasToken, Holding, Processes
<1>7. QED
  BY <1>5, <1>6 DEF Typed

LEMMA AlwaysTyped == Spec => []Typed
  BY TypedInit, TypedStep, PTL DEF Spec

(* Every reachable state of registry, file and processes has its type, and *)
(* a process that stats, reads or registers a file holds it open.          *)
THEOREM RegistryTypeCorrect == Spec => [](TypeOK /\ HoldsFd /\ HasToken)
<1>1. Typed => TypeOK /\ HoldsFd /\ HasToken
  BY DEF Typed
<1>2. QED
  BY <1>1, AlwaysTyped, PTL

-----------------------------------------------------------------------------
(* Only the persist of an offer changes the entries, and only a free one.  *)
LEMMA EntriesStep ==
    ASSUME Typed, [Next]_vars
    PROVE  \/ UNCHANGED entries
           \/ \E o \in Offers, t \in Tokens :
                 /\ PersistEntry(o)
                 /\ entries[t] = None
                 /\ entries' = [entries EXCEPT ![t] = Identity(o)]
                 /\ token' = [token EXCEPT ![o] = t]
                 /\ pc' = [pc EXCEPT ![o] = "latest"]
<1>1. CASE FileStep
  BY <1>1 DEF FileStep, InPlaceWrite, Replace, Remove, regvars
<1>2. ASSUME NEW p \in Processes, Kill(p) PROVE UNCHANGED entries
  BY <1>2 DEF Kill, regvars
<1>3. ASSUME NEW p \in Processes, NEW from, NEW to,
             OpenSource(p, from, to) \/ Stat(p, from, to) \/ HashChunk(p, to)
      PROVE  UNCHANGED entries
  BY <1>3 DEF OpenSource, Stat, HashChunk, regvars
<1>4. ASSUME NEW o \in Offers, StartOffer(o) \/ WriteLatest(o) PROVE UNCHANGED entries
  BY <1>4 DEF StartOffer, WriteLatest, regvars
<1>5. ASSUME NEW v \in Previews,
             StartPreview(v) \/ ReadLatest(v) \/ ReadEntry(v) \/ Compare(v) \/ LoadChunk(v)
      PROVE  UNCHANGED entries
  BY <1>5 DEF StartPreview, ReadLatest, ReadEntry, Compare, LoadChunk, regvars
<1>6. ASSUME NEW o \in Offers, PersistEntry(o)
      PROVE  \/ UNCHANGED entries
             \/ \E t \in Tokens :
                   /\ entries[t] = None
                   /\ entries' = [entries EXCEPT ![t] = Identity(o)]
                   /\ token' = [token EXCEPT ![o] = t]
                   /\ pc' = [pc EXCEPT ![o] = "latest"]
  BY <1>6 DEF PersistEntry, Goto
<1>7. CASE UNCHANGED vars
  BY <1>7 DEF vars
<1>8. QED
  BY <1>1, <1>2, <1>3, <1>4, <1>5, <1>6, <1>7, NextCases DEF OfferStep, PreviewStep, Processes

(* No step changes an entry that is there. *)
LEMMA EntryKept ==
    ASSUME Typed, [Next]_vars, NEW t \in Tokens, entries[t] # None
    PROVE  entries'[t] = entries[t]
  BY EntriesStep DEF Typed, TypeOK

(* Registered tokens are permanent: for any number of concurrent offers,   *)
(* drawing the same token or not, no entry is ever rewritten or removed.   *)
THEOREM ImmutableEntries == Spec => EntriesAreImmutable
<1>1. Typed /\ [Next]_vars
      => [\A t \in Tokens : entries[t] # None => entries'[t] = entries[t]]_vars
  BY EntryKept
<1>2. QED
  BY <1>1, AlwaysTyped, PTL DEF Spec, EntriesAreImmutable

-----------------------------------------------------------------------------
(* After its persist an offer's token names its own entry.                 *)
LEMMA TokenStep ==
    ASSUME Typed, TokenNamesItsOffer, [Next]_vars
    PROVE  TokenNamesItsOffer'
<1> USE ProcessAssumption
<1> SUFFICES ASSUME NEW o \in Offers, pc'[o] \in {"latest", "offered"}
             PROVE  /\ entries'[token'[o]] # None
                    /\ entries'[token'[o]].hash = data'[o]
                    /\ entries'[token'[o]].mtime = stat'[o].mtime
  BY DEF TokenNamesItsOffer
<1>0. o \in Processes
  BY DEF Processes
<1>1. ASSUME pc[o] \in {"latest", "offered"}, token'[o] = token[o], data'[o] = data[o],
             stat'[o] = stat[o]
      PROVE  /\ entries'[token'[o]] # None
             /\ entries'[token'[o]].hash = data'[o]
             /\ entries'[token'[o]].mtime = stat'[o].mtime
  <2>1. token[o] \in Tokens
    BY <1>0, <1>1 DEF Typed, TypeOK, HasToken
  <2>2. entries[token[o]] # None
    BY <1>1 DEF TokenNamesItsOffer
  <2>3. entries'[token[o]] = entries[token[o]]
    BY <2>1, <2>2, EntryKept
  <2>4. QED
    BY <1>1, <2>2, <2>3 DEF TokenNamesItsOffer
<1>2. CASE FileStep \/ UNCHANGED vars
  BY <1>1, <1>2 DEF FileStep, InPlaceWrite, Replace, Remove, vars
<1>3. ASSUME NEW p \in Processes, p # o,
             \/ Kill(p)
             \/ p \in Offers /\ OfferStep(p)
             \/ p \in Previews /\ PreviewStep(p)
      PROVE  /\ entries'[token'[o]] # None
             /\ entries'[token'[o]].hash = data'[o]
             /\ entries'[token'[o]].mtime = stat'[o].mtime
  BY <1>0, <1>1, <1>3, OthersStay DEF Typed
<1>4. CASE Kill(o)
  BY <1>0, <1>4 DEF Kill, Goto, Typed, TypeOK
<1>5. CASE PersistEntry(o)
  <2>1. PICK t \in Tokens : /\ entries' = [entries EXCEPT ![t] = Identity(o)]
                            /\ token' = [token EXCEPT ![o] = t]
    BY <1>0, <1>5 DEF PersistEntry, Fail, Goto, Typed, TypeOK
  <2>2. entries'[t] = Identity(o) /\ token'[o] = t
    BY <1>0, <2>1 DEF Typed, TypeOK
  <2>3. Identity(o) # None
    <3>1. Identity(o) \in Identities
      BY <1>0, <1>5 DEF Typed, TypeOK, HoldsFd, Holding, PersistEntry, Identity, Identities, Stats
    <3>2. QED
      BY <3>1, ProcessAssumption
  <2>4. UNCHANGED <<data, stat>>
    BY <1>5 DEF PersistEntry
  <2>5. QED
    BY <2>2, <2>3, <2>4 DEF Identity
<1>6. CASE WriteLatest(o)
  BY <1>0, <1>1, <1>6 DEF WriteLatest
<1>7. CASE StartOffer(o) \/ OpenSource(o, "open", "stat") \/ Stat(o, "stat", "hash")
           \/ HashChunk(o, "persist")
  BY <1>0, <1>7 DEF StartOffer, OpenSource, Stat, HashChunk, Fail, Goto, Typed, TypeOK
<1>8. QED
  BY <1>2, <1>3, <1>4, <1>5, <1>6, <1>7, NextCases DEF OfferStep, Processes

(* The pointer is only ever set to a token whose entry is there. *)
LEMMA LatestStep ==
    ASSUME Typed, TokenNamesItsOffer, LatestIsComplete, [Next]_vars
    PROVE  LatestIsComplete'
<1>1. CASE UNCHANGED latest
  BY <1>1, EntryKept DEF LatestIsComplete, Typed, TypeOK
<1>2. ASSUME NEW o \in Offers, WriteLatest(o), latest' = token[o] PROVE LatestIsComplete'
  BY <1>2, EntryKept DEF WriteLatest, TokenNamesItsOffer, LatestIsComplete
<1>3. UNCHANGED latest \/ \E o \in Offers : WriteLatest(o) /\ latest' = token[o]
  BY NextCases DEF FileStep, InPlaceWrite, Replace, Remove, Kill, OfferStep, PreviewStep,
     StartOffer, OpenSource, Stat, HashChunk, PersistEntry, WriteLatest, StartPreview,
     ReadLatest, ReadEntry, Compare, LoadChunk, regvars, vars
<1>4. QED
  BY <1>1, <1>2, <1>3

(* The order of the two persists makes `latest` safe at every crash point. *)
THEOREM LatestCorrect == Spec => [](TokenNamesItsOffer /\ LatestIsComplete)
<1>1. Init => TokenNamesItsOffer /\ LatestIsComplete
  BY DEF Init, TokenNamesItsOffer, LatestIsComplete, Processes
<1>2. Typed /\ TokenNamesItsOffer /\ LatestIsComplete /\ [Next]_vars
      => (TokenNamesItsOffer /\ LatestIsComplete)'
  BY TokenStep, LatestStep
<1>3. QED
  BY <1>1, <1>2, AlwaysTyped, PTL DEF Spec

(* The token that an offer prints names what this offer observed, however  *)
(* many offers draw the same token.                                        *)
THEOREM TokenCorrect == Spec => []TokenNamesItsOffer
  BY LatestCorrect, PTL

-----------------------------------------------------------------------------
(* `latest` never goes back behind a registration that had completed.      *)

(* Two offers never register the same token. *)
NoTokenTwice ==
    \A o, q \in Offers :
        o # q /\ pc[o] \in {"latest", "offered"} /\ pc[q] \in {"latest", "offered"}
            => token[o] # token[q]

(* The tokens registered before an offer began are those of offers that    *)
(* have returned.                                                          *)
BeforeIsOffered ==
    \A o \in Offers : \A t \in before[o] :
        \E q \in Offers : pc[q] = "offered" /\ token[q] = t

(* How one step moves an offer to where it has a token. *)
LEMMA OfferedStep ==
    ASSUME Typed, [Next]_vars, NEW o \in Offers, pc'[o] \in {"latest", "offered"}
    PROVE  \/ /\ PersistEntry(o) /\ entries[token'[o]] = None
              /\ pc'[o] = "latest" /\ token'[o] \in Tokens
           \/ /\ pc[o] \in {"latest", "offered"} /\ token'[o] = token[o]
              /\ pc[o] = "latest" /\ pc'[o] = "offered" => WriteLatest(o)
              /\ pc[o] = "offered" => pc'[o] = "offered"
<1> USE ProcessAssumption
<1>0. o \in Processes
  BY DEF Processes
<1>1. CASE FileStep \/ UNCHANGED vars
  BY <1>1 DEF FileStep, InPlaceWrite, Replace, Remove, vars
<1>2. ASSUME NEW p \in Processes, p # o,
             \/ Kill(p)
             \/ p \in Offers /\ OfferStep(p)
             \/ p \in Previews /\ PreviewStep(p)
      PROVE  pc'[o] = pc[o] /\ token'[o] = token[o]
  BY <1>0, <1>2, OthersStay DEF Typed
<1>3. CASE Kill(o)
  BY <1>0, <1>3 DEF Kill, Goto, Typed, TypeOK
<1>4. CASE PersistEntry(o)
  <2>1. PICK t \in Tokens : /\ entries[t] = None
                            /\ token' = [token EXCEPT ![o] = t]
                            /\ pc' = [pc EXCEPT ![o] = "latest"]
    BY <1>0, <1>4 DEF PersistEntry, Fail, Goto, Typed, TypeOK
  <2>2. QED
    BY <1>0, <1>4, <2>1 DEF Typed, TypeOK
<1>5. CASE WriteLatest(o)
  BY <1>0, <1>5 DEF WriteLatest, Typed, TypeOK
<1>6. CASE StartOffer(o) \/ OpenSource(o, "open", "stat") \/ Stat(o, "stat", "hash")
           \/ HashChunk(o, "persist")
  BY <1>0, <1>6 DEF StartOffer, OpenSource, Stat, HashChunk, Fail, Goto, Typed, TypeOK
<1>7. QED
  BY <1>1, <1>2, <1>3, <1>4, <1>5, <1>6, NextCases DEF OfferStep, Processes

(* An offer that has returned stays so, with its token. *)
LEMMA OfferedStays ==
    ASSUME Typed, [Next]_vars, NEW o \in Offers, pc[o] = "offered"
    PROVE  pc'[o] = "offered" /\ token'[o] = token[o]
<1> USE ProcessAssumption
<1>0. o \in Processes
  BY DEF Processes
<1>1. CASE FileStep \/ UNCHANGED vars
  BY <1>1 DEF FileStep, InPlaceWrite, Replace, Remove, vars
<1>2. ASSUME NEW p \in Processes, p # o,
             \/ Kill(p)
             \/ p \in Offers /\ OfferStep(p)
             \/ p \in Previews /\ PreviewStep(p)
      PROVE  pc'[o] = pc[o] /\ token'[o] = token[o]
  BY <1>0, <1>2, OthersStay DEF Typed
<1>3. ~Kill(o) /\ ~OfferStep(o)
  BY DEF Kill, OfferStep, StartOffer, OpenSource, Stat, HashChunk, PersistEntry, WriteLatest
<1>4. QED
  BY <1>1, <1>2, <1>3, NextCases DEF Processes

LEMMA NoTokenTwiceStep ==
    ASSUME Typed, TokenNamesItsOffer, NoTokenTwice, [Next]_vars
    PROVE  NoTokenTwice'
<1> SUFFICES ASSUME NEW o \in Offers, NEW q \in Offers, o # q,
                    pc'[o] \in {"latest", "offered"}, pc'[q] \in {"latest", "offered"}
             PROVE  token'[o] # token'[q]
  BY DEF NoTokenTwice
<1>0. o \in Processes /\ q \in Processes
  BY DEF Processes
(* The one that persists takes a free token; the other's is not free. *)
<1>1. ASSUME NEW p \in Offers, NEW r \in Offers, p # r, p \in Processes, r \in Processes,
             PersistEntry(p), entries[token'[p]] = None, pc'[r] \in {"latest", "offered"}
      PROVE  token'[p] # token'[r]
  <2>1. pc'[r] = pc[r] /\ token'[r] = token[r]
    BY <1>1, OthersStay DEF Typed, OfferStep
  <2>2. entries[token[r]] # None
    BY <1>1, <2>1 DEF TokenNamesItsOffer
  <2>3. QED
    BY <1>1, <2>1, <2>2
<1>2. CASE PersistEntry(o) /\ entries[token'[o]] = None
  BY <1>0, <1>1, <1>2
<1>3. CASE PersistEntry(q) /\ entries[token'[q]] = None
  BY <1>0, <1>1, <1>3
<1>4. CASE /\ pc[o] \in {"latest", "offered"} /\ token'[o] = token[o]
           /\ pc[q] \in {"latest", "offered"} /\ token'[q] = token[q]
  BY <1>4 DEF NoTokenTwice
<1>5. QED
  BY <1>2, <1>3, <1>4, OfferedStep

LEMMA BeforeStep ==
    ASSUME Typed, BeforeIsOffered, [Next]_vars
    PROVE  BeforeIsOffered'
<1> USE ProcessAssumption
<1> SUFFICES ASSUME NEW o \in Offers, NEW t \in before'[o]
             PROVE  \E q \in Offers : pc'[q] = "offered" /\ token'[q] = t
  BY DEF BeforeIsOffered
<1>0. o \in Processes
  BY DEF Processes
<1>1. \E q \in Offers : pc[q] = "offered" /\ token[q] = t
  <2>1. CASE before'[o] = before[o]
    BY <2>1 DEF BeforeIsOffered
  <2>2. CASE StartOffer(o)
    <3>1. before'[o] = Offered
      BY <1>0, <2>2 DEF StartOffer, Typed, TypeOK
    <3>2. QED
      BY <3>1 DEF Offered
  <2>3. ASSUME NEW p \in Processes, p # o,
               \/ Kill(p)
               \/ p \in Offers /\ OfferStep(p)
               \/ p \in Previews /\ PreviewStep(p)
        PROVE  before'[o] = before[o]
    BY <1>0, <2>3, OthersStay DEF Typed
  <2>4. CASE FileStep \/ UNCHANGED vars \/ Kill(o)
    BY <2>1, <2>4 DEF FileStep, InPlaceWrite, Replace, Remove, Kill, vars
  <2>5. CASE OfferStep(o)
    BY <2>1, <2>2, <2>5 DEF OfferStep, OpenSource, Stat, HashChunk, PersistEntry, WriteLatest
  <2>6. QED
    BY <2>1, <2>3, <2>4, <2>5, NextCases DEF Processes
<1>2. QED
  BY <1>1, OfferedStays

(* A write of the pointer names a token that no completed offer has. *)
LEMMA LatestNeverGoesBackStep ==
    ASSUME Typed, NoTokenTwice, BeforeIsOffered, LatestNeverGoesBack, [Next]_vars,
           NoTokenTwice', BeforeIsOffered'
    PROVE  LatestNeverGoesBack'
<1> USE ProcessAssumption
<1> SUFFICES ASSUME NEW o \in Offers, pc'[o] = "offered"
             PROVE  latest' \notin before'[o]
  BY DEF LatestNeverGoesBack
<1>0. o \in Processes
  BY DEF Processes
<1>1. ASSUME NEW p \in Offers, WriteLatest(p), latest' = token[p], pc'[p] = "offered"
      PROVE  latest' \notin before'[o]
  <2>1. /\ p \in Processes /\ pc[p] = "latest"
        /\ UNCHANGED before
    BY <1>1 DEF WriteLatest, Processes
  <2>2. ASSUME NEW t \in before[o], t = token[p] PROVE FALSE
    <3>1. PICK q \in Offers : pc[q] = "offered" /\ token[q] = t
      BY <2>2 DEF BeforeIsOffered
    <3>2. q # p
      BY <2>1, <3>1
    <3>3. QED
      BY <2>1, <2>2, <3>1, <3>2 DEF NoTokenTwice
  <2>3. QED
    BY <1>1, <2>1, <2>2
<1>2. CASE UNCHANGED latest
  <2>1. CASE pc[o] = "offered"
    <3>1. before'[o] = before[o]
      <4>1. ~Kill(o) /\ ~OfferStep(o)
        BY <2>1 DEF Kill, OfferStep, StartOffer, OpenSource, Stat, HashChunk, PersistEntry,
           WriteLatest
      <4>2. ASSUME NEW p \in Processes, p # o,
                   \/ Kill(p)
                   \/ p \in Offers /\ OfferStep(p)
                   \/ p \in Previews /\ PreviewStep(p)
            PROVE  before'[o] = before[o]
        BY <1>0, <4>2, OthersStay DEF Typed
      <4>3. CASE FileStep \/ UNCHANGED vars
        BY <4>3 DEF FileStep, InPlaceWrite, Replace, Remove, vars
      <4>4. QED
        BY <4>1, <4>2, <4>3, NextCases DEF Processes
    <3>2. QED
      BY <1>2, <2>1, <3>1 DEF LatestNeverGoesBack
  <2>2. CASE pc[o] # "offered"
    <3>1. WriteLatest(o) /\ pc[o] = "latest"
      BY <2>2, OfferedStep
    <3>2. latest' = token[o]
      BY <1>0, <3>1 DEF WriteLatest, Fail, Goto, Typed, TypeOK
    <3>3. QED
      BY <1>1, <3>1, <3>2
  <2>3. QED
    BY <2>1, <2>2
<1>3. ASSUME NEW p \in Offers, WriteLatest(p) PROVE UNCHANGED latest \/ pc'[p] = "offered"
  BY <1>3 DEF WriteLatest, Goto, Typed, TypeOK, Processes
<1>4. UNCHANGED latest \/ \E p \in Offers : WriteLatest(p) /\ latest' = token[p]
  BY NextCases DEF FileStep, InPlaceWrite, Replace, Remove, Kill, OfferStep, PreviewStep,
     StartOffer, OpenSource, Stat, HashChunk, PersistEntry, WriteLatest, StartPreview,
     ReadLatest, ReadEntry, Compare, LoadChunk, regvars, vars
<1>5. QED
  BY <1>1, <1>2, <1>3, <1>4

(* Once an offer has returned, @latest names it or one that was not yet    *)
(* complete when it began, whatever other offers do and wherever they die. *)
THEOREM LatestMovesForward == Spec => []LatestNeverGoesBack
<1> DEFINE Inv == NoTokenTwice /\ BeforeIsOffered /\ LatestNeverGoesBack
<1>1. Init => Inv
  BY DEF Init, NoTokenTwice, BeforeIsOffered, LatestNeverGoesBack, Processes
<1>2. Typed /\ TokenNamesItsOffer /\ Inv /\ [Next]_vars => Inv'
  BY NoTokenTwiceStep, BeforeStep, LatestNeverGoesBackStep
<1>3. Inv => LatestNeverGoesBack
  OBVIOUS
<1>4. QED
  BY <1>1, <1>2, <1>3, AlwaysTyped, TokenCorrect, PTL DEF Spec

-----------------------------------------------------------------------------
(* A torn identity is never confirmed.                                     *)

(* The content of an inode is the one its modification time stands for. *)
FilesAreWhole ==
    \A i \in Inodes : /\ file[i].mtime <= writes
                      /\ file[i].content = written[file[i].mtime]

(* What an offer has read is the beginning of the content it took the      *)
(* modification time of, or the file has a later one by now.               *)
OffersRead ==
    \A o \in Offers :
        /\ pc[o] = "stat" => data[o] = <<>>
        /\ pc[o] \in {"hash", "persist"} =>
             /\ stat[o].mtime <= file[fd[o]].mtime
             /\ stat[o].mtime = file[fd[o]].mtime =>
                  /\ Len(data[o]) <= Len(written[stat[o].mtime])
                  /\ \A k \in 1..Len(data[o]) : data[o][k] = written[stat[o].mtime][k]
                  /\ pc[o] = "persist" => Len(data[o]) = Len(written[stat[o].mtime])

(* An entry records a whole content, or its file has been changed since. *)
EntryIsWhole(e) == e.hash = written[e.mtime]
EntriesAreWhole ==
    \A t \in Tokens : entries[t] # None =>
        LET e == entries[t] IN
        /\ e.mtime <= writes
        /\ EntryIsWhole(e) \/ e.mtime < file[e.ino].mtime

(* A preview has read its entry before it takes the modification time, so  *)
(* it cannot see the time of a torn entry.                                 *)
PreviewsCompare ==
    \A v \in Previews : pc[v] \in PreviewStates \ {"idle", "pointer", "entry"} =>
        LET e == entries[token[v]] IN
        /\ e # None
        /\ pc[v] \in {"hash", "compare"} =>
             EntryIsWhole(e) \/ fd[v] # e.ino \/ stat[v].mtime # e.mtime
        /\ pc[v] \in {"reopen", "restat", "load", "shown"} => EntryIsWhole(e)

(* Modification times only grow, and a past one keeps its content. *)
LEMMA FileFrame ==
    ASSUME Typed, FilesAreWhole, [Next]_vars
    PROVE  /\ writes <= writes'
           /\ \A m \in 0..writes : written'[m] = written[m]
           /\ \A i \in Inodes : file'[i] = file[i] \/ file[i].mtime < file'[i].mtime
           /\ FilesAreWhole'
<1> USE DEF Typed, TypeOK
<1>1. ASSUME UNCHANGED fsvars
      PROVE  /\ writes <= writes'
             /\ \A m \in 0..writes : written'[m] = written[m]
             /\ \A i \in Inodes : file'[i] = file[i] \/ file[i].mtime < file'[i].mtime
             /\ FilesAreWhole'
  BY <1>1 DEF fsvars, FilesAreWhole
<1>2. ASSUME NEW c \in Contents, NEW i \in Inodes,
             writes' = writes + 1,
             file' = [file EXCEPT ![i] = [content |-> c, mtime |-> writes + 1]],
             written' = [m \in 0..(writes + 1) |-> IF m = writes + 1 THEN c ELSE written[m]]
      PROVE  /\ writes <= writes'
             /\ \A m \in 0..writes : written'[m] = written[m]
             /\ \A j \in Inodes : file'[j] = file[j] \/ file[j].mtime < file'[j].mtime
             /\ FilesAreWhole'
  <2>1. writes \in Nat /\ file \in [Inodes -> [content : Seq(Chunks), mtime : Nat]]
    OBVIOUS
  <2>2. \A m \in 0..writes : written'[m] = written[m]
    BY <1>2, <2>1
  <2>3. \A j \in Inodes : file'[j] = file[j] \/ file[j].mtime < file'[j].mtime
    BY <1>2, <2>1 DEF FilesAreWhole
  <2>4. ASSUME NEW j \in Inodes
        PROVE  file'[j].mtime <= writes' /\ file'[j].content = written'[file'[j].mtime]
    <3>1. CASE j = i
      BY <1>2, <2>1, <3>1
    <3>2. CASE j # i
      <4>1. file'[j] = file[j] /\ file[j].mtime \in 0..writes
        BY <1>2, <2>1, <3>2 DEF FilesAreWhole
      <4>2. QED
        BY <1>2, <2>1, <2>2, <4>1 DEF FilesAreWhole
    <3>3. QED
      BY <3>1, <3>2
  <2>5. QED
    BY <1>2, <2>1, <2>2, <2>3, <2>4 DEF FilesAreWhole
<1>3. ASSUME FileStep
      PROVE  \/ UNCHANGED <<file, writes, written>>
             \/ \E c \in Contents, i \in Inodes :
                  /\ writes' = writes + 1
                  /\ file' = [file EXCEPT ![i] = [content |-> c, mtime |-> writes + 1]]
                  /\ written' = [m \in 0..(writes + 1) |->
                                   IF m = writes + 1 THEN c ELSE written[m]]
  BY <1>3 DEF FileStep, InPlaceWrite, Replace, Remove
<1>4. CASE UNCHANGED <<file, writes, written>>
  BY <1>4 DEF FilesAreWhole
<1>5. ~FileStep => UNCHANGED <<file, writes, written>>
  BY NextCases DEF Kill, OfferStep, PreviewStep, StartOffer, OpenSource, Stat, HashChunk,
     PersistEntry, WriteLatest, StartPreview, ReadLatest, ReadEntry, Compare, LoadChunk,
     fsvars, vars
<1>6. QED
  BY <1>2, <1>3, <1>4, <1>5

(* An offer that is not touched keeps its reading, also when the file      *)
(* changes under it.                                                       *)
LEMMA OffersReadFrame ==
    ASSUME Typed, FilesAreWhole, OffersRead, [Next]_vars, NEW o \in Offers,
           pc'[o] = pc[o], fd'[o] = fd[o], stat'[o] = stat[o], data'[o] = data[o]
    PROVE  /\ pc'[o] = "stat" => data'[o] = <<>>
           /\ pc'[o] \in {"hash", "persist"} =>
                /\ stat'[o].mtime <= file'[fd'[o]].mtime
                /\ stat'[o].mtime = file'[fd'[o]].mtime =>
                     /\ Len(data'[o]) <= Len(written'[stat'[o].mtime])
                     /\ \A k \in 1..Len(data'[o]) : data'[o][k] = written'[stat'[o].mtime][k]
                     /\ pc'[o] = "persist" => Len(data'[o]) = Len(written'[stat'[o].mtime])
<1>1. CASE pc[o] \notin {"hash", "persist"}
  BY <1>1 DEF OffersRead
<1>2. CASE pc[o] \in {"hash", "persist"}
  <2>1. fd[o] \in Inodes /\ stat[o].mtime \in Nat
    BY <1>2 DEF Typed, TypeOK, HoldsFd, Holding, Processes, Stats
  <2>2. file[fd[o]].mtime \in 0..writes /\ file'[fd[o]].mtime \in Nat
    <3>1. TypeOK'
      BY TypedStep DEF Typed
    <3>2. QED
      BY <2>1, <3>1 DEF Typed, TypeOK, FilesAreWhole
  <2>3. file'[fd[o]] = file[fd[o]] \/ file[fd[o]].mtime < file'[fd[o]].mtime
    BY <2>1, FileFrame
  <2>4. stat[o].mtime <= file'[fd[o]].mtime
    BY <1>2, <2>1, <2>2, <2>3 DEF OffersRead
  <2>5. CASE stat[o].mtime = file'[fd[o]].mtime
    <3>1. stat[o].mtime = file[fd[o]].mtime
      BY <1>2, <2>1, <2>2, <2>3, <2>5 DEF OffersRead
    <3>2. written'[stat[o].mtime] = written[stat[o].mtime]
      BY <2>2, <3>1, FileFrame
    <3>3. QED
      BY <1>2, <2>4, <3>1, <3>2 DEF OffersRead
  <2>6. QED
    BY <1>2, <2>4, <2>5
<1>3. QED
  BY <1>1, <1>2

(* Reading one more chunk of an unchanged file extends the beginning that  *)
(* was read, and end of file means that all of it was.                     *)
LEMMA OffersReadStep ==
    ASSUME Typed, FilesAreWhole, OffersRead, [Next]_vars PROVE OffersRead'
<1> USE ProcessAssumption
<1> DEFINE Reading(o) ==
      /\ pc[o] = "stat" => data[o] = <<>>
      /\ pc[o] \in {"hash", "persist"} =>
           /\ stat[o].mtime <= file[fd[o]].mtime
           /\ stat[o].mtime = file[fd[o]].mtime =>
                /\ Len(data[o]) <= Len(written[stat[o].mtime])
                /\ \A k \in 1..Len(data[o]) : data[o][k] = written[stat[o].mtime][k]
                /\ pc[o] = "persist" => Len(data[o]) = Len(written[stat[o].mtime])
<1> SUFFICES ASSUME NEW o \in Offers PROVE Reading(o)'
  BY DEF OffersRead
<1>0. o \in Processes
  BY DEF Processes
<1>1. CASE FileStep \/ UNCHANGED vars
  <2>1. UNCHANGED <<pc, fd, stat, data>>
    BY <1>1 DEF FileStep, InPlaceWrite, Replace, Remove, vars
  <2>2. QED
    BY <2>1, OffersReadFrame
<1>2. ASSUME NEW p \in Processes, p # o,
             \/ Kill(p)
             \/ p \in Offers /\ OfferStep(p)
             \/ p \in Previews /\ PreviewStep(p)
      PROVE  Reading(o)'
  BY <1>0, <1>2, OthersStay, OffersReadFrame DEF Typed
<1>3. CASE Kill(o) \/ StartOffer(o) \/ WriteLatest(o)
  <2>1. pc'[o] \notin {"stat", "hash", "persist"}
    BY <1>0, <1>3 DEF Kill, StartOffer, WriteLatest, Fail, Goto, Typed, TypeOK
  <2>2. QED
    BY <2>1
<1>4. CASE OpenSource(o, "open", "stat")
  <2>1. pc'[o] \in {"stat", "failed"} /\ data'[o] = <<>>
    BY <1>0, <1>4 DEF OpenSource, Fail, Goto, Typed, TypeOK
  <2>2. QED
    BY <2>1
<1>5. CASE Stat(o, "stat", "hash")
  <2>1. CASE pc'[o] # "hash"
    <3>1. pc'[o] = "failed"
      BY <1>0, <1>5, <2>1 DEF Stat, Fail, Goto, Typed, TypeOK
    <3>2. QED
      BY <3>1
  <2>2. CASE pc'[o] = "hash"
    <3>1. fd[o] \in Inodes
      BY <1>0, <1>5 DEF Stat, Typed, TypeOK, HoldsFd, Holding
    <3>2. fd'[o] = fd[o] /\ UNCHANGED <<file, written>>
      BY <1>0, <1>5, <2>2 DEF Stat, Fail, Goto, Typed, TypeOK, fsvars
    <3>3. stat'[o].mtime = file[fd[o]].mtime /\ data'[o] = <<>>
      BY <1>0, <1>5 DEF Stat, Typed, TypeOK, OffersRead
    <3>4. file[fd[o]].mtime \in Nat /\ written[file[fd[o]].mtime] \in Seq(Chunks)
      BY <3>1 DEF Typed, TypeOK, FilesAreWhole
    <3>5. QED
      BY <2>2, <3>2, <3>3, <3>4
  <2>3. QED
    BY <2>1, <2>2
<1>6. CASE HashChunk(o, "persist")
  <2> DEFINE c == file[fd[o]].content
  <2>1. /\ fd[o] \in Inodes /\ pc[o] = "hash"
        /\ UNCHANGED <<fd, stat, file, written>>
    BY <1>0, <1>6 DEF HashChunk, Typed, TypeOK, HoldsFd, Holding, fsvars
  <2>2. c \in Seq(Chunks) /\ data[o] \in Seq(Chunks) /\ c = written[file[fd[o]].mtime]
    BY <1>0, <2>1 DEF Typed, TypeOK, FilesAreWhole
  <2>3. stat'[o].mtime <= file'[fd'[o]].mtime
    BY <2>1 DEF OffersRead
  <2>4. pc'[o] # "stat"
    BY <1>0, <1>6, <2>1 DEF HashChunk, Goto, Typed, TypeOK
  <2>5. ASSUME stat[o].mtime = file[fd[o]].mtime
        PROVE  /\ Len(data'[o]) <= Len(c)
               /\ \A k \in 1..Len(data'[o]) : data'[o][k] = c[k]
               /\ pc'[o] = "persist" => Len(data'[o]) = Len(c)
    <3>1. Len(data[o]) <= Len(c) /\ \A k \in 1..Len(data[o]) : data[o][k] = c[k]
      BY <2>1, <2>2, <2>5 DEF OffersRead
    <3>2. CASE Len(data[o]) < Len(c)
      <4>1. data'[o] = Append(data[o], c[Len(data[o]) + 1]) /\ pc'[o] = "hash"
        BY <1>0, <1>6, <2>1, <3>2 DEF HashChunk, Typed, TypeOK
      <4>2. QED
        BY <2>2, <3>1, <3>2, <4>1
    <3>3. CASE ~(Len(data[o]) < Len(c))
      <4>1. data'[o] = data[o]
        BY <1>6, <3>3 DEF HashChunk
      <4>2. QED
        BY <2>2, <3>1, <3>3, <4>1
    <3>4. QED
      BY <3>2, <3>3
  <2>6. QED
    BY <2>1, <2>2, <2>3, <2>4, <2>5
<1>7. CASE PersistEntry(o)
  <2>1. pc'[o] \in {"latest", "failed"} \/ UNCHANGED <<pc, fd, stat, data>>
    BY <1>0, <1>7 DEF PersistEntry, Fail, Goto, Typed, TypeOK
  <2>2. QED
    BY <2>1, OffersReadFrame
<1>8. QED
  BY <1>1, <1>2, <1>3, <1>4, <1>5, <1>6, <1>7, NextCases DEF OfferStep, Processes

(* The entry that an offer persists is whole or already out of date. *)
LEMMA EntriesWholeStep ==
    ASSUME Typed, FilesAreWhole, OffersRead, EntriesAreWhole, [Next]_vars
    PROVE  EntriesAreWhole'
<1> USE ProcessAssumption
<1> SUFFICES ASSUME NEW t \in Tokens, entries'[t] # None
             PROVE  /\ entries'[t].mtime <= writes'
                    /\ \/ entries'[t].hash = written'[entries'[t].mtime]
                       \/ entries'[t].mtime < file'[entries'[t].ino].mtime
  BY DEF EntriesAreWhole, EntryIsWhole
<1>1. CASE entries[t] # None
  <2> DEFINE e == entries[t]
  <2>1. entries'[t] = e
    BY <1>1, EntryKept
  <2>2. e \in Identities
    BY <1>1 DEF Typed, TypeOK
  <2>3. e.ino \in Inodes /\ e.mtime \in 0..writes
    BY <1>1, <2>2 DEF Identities, EntriesAreWhole, Typed, TypeOK
  <2>4. writes <= writes' /\ written'[e.mtime] = written[e.mtime]
    BY <2>3, FileFrame
  <2>5. file'[e.ino] = file[e.ino] \/ file[e.ino].mtime < file'[e.ino].mtime
    BY <2>3, FileFrame
  <2>6. writes \in Nat /\ writes' \in Nat /\ file[e.ino].mtime \in Nat /\ file'[e.ino].mtime \in Nat
    <3>1. TypeOK'
      BY TypedStep DEF Typed
    <3>2. QED
      BY <2>3, <3>1 DEF Typed, TypeOK
  <2>7. e.hash = written[e.mtime] \/ e.mtime < file[e.ino].mtime
    BY <1>1 DEF EntriesAreWhole, EntryIsWhole
  <2>8. QED
    BY <2>1, <2>3, <2>4, <2>5, <2>6, <2>7
<1>2. CASE entries[t] = None
  <2>1. PICK o \in Offers : PersistEntry(o) /\ entries'[t] = Identity(o)
    BY <1>2, EntriesStep DEF Typed, TypeOK
  <2>2. /\ fd[o] \in Inodes /\ pc[o] = "persist" /\ stat[o].mtime \in Nat
        /\ UNCHANGED <<file, writes, written>> /\ data[o] \in Seq(Chunks)
    BY <2>1 DEF PersistEntry, Typed, TypeOK, HoldsFd, Holding, Stats, Processes, fsvars
  <2>3. file[fd[o]].mtime \in 0..writes /\ stat[o].mtime <= file[fd[o]].mtime
    BY <2>2 DEF Typed, TypeOK, FilesAreWhole, OffersRead
  <2>4. /\ writes \in Nat
        /\ entries'[t].ino = fd[o] /\ entries'[t].mtime = stat[o].mtime
        /\ entries'[t].hash = data[o]
    BY <2>1 DEF Identity, Typed, TypeOK
  <2>5. CASE stat[o].mtime = file[fd[o]].mtime
    <3>1. written[stat[o].mtime] \in Seq(Chunks)
      BY <2>3, <2>5 DEF Typed, TypeOK
    <3>2. /\ Len(data[o]) = Len(written[stat[o].mtime])
          /\ \A k \in 1..Len(data[o]) : data[o][k] = written[stat[o].mtime][k]
      BY <2>2, <2>5 DEF OffersRead
    <3>3. data[o] = written[stat[o].mtime]
      BY SMTT(30), <2>2, <3>1, <3>2
    <3>4. QED
      BY <2>2, <2>3, <2>4, <3>3
  <2>6. CASE stat[o].mtime # file[fd[o]].mtime
    BY <2>2, <2>3, <2>6, <2>4
  <2>7. QED
    BY <2>5, <2>6
<1>3. QED
  BY <1>1, <1>2

(* A preview never confirms a torn entry. *)
LEMMA PreviewsCompareStep ==
    ASSUME Typed, FilesAreWhole, EntriesAreWhole, PreviewsCompare, [Next]_vars
    PROVE  PreviewsCompare'
<1> USE ProcessAssumption
<1> DEFINE Checked(v) ==
      pc[v] \in PreviewStates \ {"idle", "pointer", "entry"} =>
        /\ entries[token[v]] # None
        /\ pc[v] \in {"hash", "compare"} =>
             \/ EntryIsWhole(entries[token[v]])
             \/ fd[v] # entries[token[v]].ino
             \/ stat[v].mtime # entries[token[v]].mtime
        /\ pc[v] \in {"reopen", "restat", "load", "shown"} => EntryIsWhole(entries[token[v]])
<1> SUFFICES ASSUME NEW v \in Previews, pc'[v] \in PreviewStates \ {"idle", "pointer", "entry"}
             PROVE  Checked(v)'
  BY DEF PreviewsCompare
<1>0. v \in Processes
  BY DEF Processes
<1>1. ASSUME NEW t \in Tokens, entries[t] # None
      PROVE  entries'[t] = entries[t] /\ (EntryIsWhole(entries[t]) => EntryIsWhole(entries[t])')
  <2>1. entries'[t] = entries[t]
    BY <1>1, EntryKept
  <2>2. entries[t].mtime \in 0..writes
    BY <1>1 DEF EntriesAreWhole, Typed, TypeOK, Identities
  <2>3. written'[entries[t].mtime] = written[entries[t].mtime]
    BY <2>2, FileFrame
  <2>4. QED
    BY <2>1, <2>3 DEF EntryIsWhole
<1>2. ASSUME pc'[v] = pc[v], token'[v] = token[v], fd'[v] = fd[v], stat'[v] = stat[v]
      PROVE  Checked(v)'
  <2>1. token[v] \in Tokens /\ entries[token[v]] # None
    BY <1>0, <1>2 DEF Typed, TypeOK, HasToken, PreviewsCompare
  <2>2. PICK t \in Tokens : t = token[v] /\ t = token'[v]
    BY <1>2, <2>1
  <2>3. entries'[t] = entries[t] /\ (EntryIsWhole(entries[t]) => EntryIsWhole(entries[t])')
    BY <1>1, <2>1, <2>2
  <2>4. QED
    BY <1>2, <2>1, <2>2, <2>3 DEF PreviewsCompare, EntryIsWhole
<1>3. CASE FileStep \/ UNCHANGED vars
  BY <1>2, <1>3 DEF FileStep, InPlaceWrite, Replace, Remove, vars
<1>4. ASSUME NEW p \in Processes, p # v,
             \/ Kill(p)
             \/ p \in Offers /\ OfferStep(p)
             \/ p \in Previews /\ PreviewStep(p)
      PROVE  Checked(v)'
  BY <1>0, <1>2, <1>4, OthersStay DEF Typed
<1>5. CASE Kill(v) \/ StartPreview(v) \/ ReadLatest(v)
  BY <1>0, <1>5 DEF Kill, StartPreview, ReadLatest, Fail, Goto, Typed, TypeOK, PreviewStates
<1>6. CASE ReadEntry(v)
  BY <1>0, <1>6 DEF ReadEntry, Fail, Goto, Typed, TypeOK, PreviewStates, regvars
<1>7. CASE OpenSource(v, "open", "stat") \/ OpenSource(v, "reopen", "restat")
  BY ZenonT(40), <1>0, <1>7 DEF OpenSource, Fail, Goto, Typed, TypeOK, PreviewStates, regvars, fsvars,
     PreviewsCompare, EntryIsWhole
<1>8. CASE Stat(v, "stat", "hash")
  <2>1. /\ fd[v] \in Inodes /\ pc[v] = "stat" /\ UNCHANGED <<file, written, entries, token>>
        /\ pc'[v] = "hash" /\ fd'[v] = fd[v] /\ stat'[v].mtime = file[fd[v]].mtime
    BY <1>0, <1>8 DEF Stat, Fail, Goto, Typed, TypeOK, HoldsFd, Holding, PreviewStates,
       fsvars, regvars
  <2>2. token[v] \in Tokens /\ entries[token[v]] # None
    BY <1>0, <2>1 DEF Typed, TypeOK, HasToken, PreviewStates, PreviewsCompare
  <2>3. entries[token[v]].mtime \in Nat /\ file[fd[v]].mtime \in Nat
    BY <2>1, <2>2 DEF Typed, TypeOK, Identities
  <2>4. \/ EntryIsWhole(entries[token[v]])
        \/ entries[token[v]].mtime < file[entries[token[v]].ino].mtime
    BY <2>2 DEF EntriesAreWhole
  <2>5. QED
    BY <2>1, <2>2, <2>3, <2>4 DEF EntryIsWhole
<1>9. CASE Stat(v, "restat", "load")
  BY <1>0, <1>9 DEF Stat, Fail, Goto, Typed, TypeOK, PreviewStates, regvars, fsvars,
     PreviewsCompare, EntryIsWhole
<1>10. CASE HashChunk(v, "compare")
  BY ZenonT(40), <1>0, <1>10 DEF HashChunk, Goto, Typed, TypeOK, PreviewStates, regvars, fsvars,
     PreviewsCompare, EntryIsWhole
<1>11. CASE Compare(v)
  <2>1. /\ pc[v] = "compare" /\ Identity(v) = entries[token[v]] /\ pc'[v] = "reopen"
        /\ UNCHANGED <<written, entries, token>>
    BY <1>0, <1>11 DEF Compare, Goto, Typed, TypeOK, PreviewStates, fsvars, regvars
  <2>2. fd[v] = entries[token[v]].ino /\ stat[v].mtime = entries[token[v]].mtime
    BY <2>1 DEF Identity
  <2>3. entries[token[v]] # None /\ EntryIsWhole(entries[token[v]])
    BY <2>1, <2>2 DEF PreviewsCompare, PreviewStates
  <2>4. QED
    BY <2>1, <2>3 DEF EntryIsWhole
<1>12. CASE LoadChunk(v)
  BY <1>0, <1>12 DEF LoadChunk, Fail, Goto, Typed, TypeOK, PreviewStates, regvars, fsvars,
     PreviewsCompare, EntryIsWhole
<1>13. QED
  BY <1>3, <1>4, <1>5, <1>6, <1>7, <1>8, <1>9, <1>10, <1>11, <1>12, NextCases
  DEF PreviewStep, Processes

(* "A token never silently follows replacement content" up to the return   *)
(* of resolve: whatever is written while it is registered or resolved, a   *)
(* token that resolves names one whole content of the file.                *)
THEOREM ResolveCorrect == Spec => []ResolvedContentWasWhole
<1> DEFINE Inv == FilesAreWhole /\ OffersRead /\ EntriesAreWhole /\ PreviewsCompare
<1>1. Init => Inv
  <2> SUFFICES ASSUME Init PROVE Inv
    OBVIOUS
  <2>1. FilesAreWhole
    BY DEF Init, FilesAreWhole
  <2>2. OffersRead /\ EntriesAreWhole /\ PreviewsCompare
    BY DEF Init, OffersRead, EntriesAreWhole, PreviewsCompare, Processes
  <2>3. QED
    BY <2>1, <2>2
<1>2. Typed /\ Inv /\ [Next]_vars => Inv'
  BY FileFrame, OffersReadStep, EntriesWholeStep, PreviewsCompareStep
<1>3. Inv => ResolvedContentWasWhole
  BY DEF PreviewsCompare, ResolvedContentWasWhole, EntryIsWhole, PreviewStates
<1>4. QED
  BY <1>1, <1>2, <1>3, AlwaysTyped, PTL DEF Spec
=============================================================================
