--------------------------- MODULE ContractsProofs ---------------------------
(***************************************************************************)
(* Proofs about Contracts for every set of paths, endpoints and tokens and *)
(* every bound: the builders and the validators agree, a link leads back   *)
(* to its path, and an accepted URI is the canonical one of its intent.    *)
(***************************************************************************)
EXTENDS Contracts, TLAPS

Stages == {"start", "intent", "uri", "clicked", "emitted", "refused"}

(* The intent that this path and endpoint make on this host. *)
Meant == Intent(endpoint, PathEncoding(host), Text("url", path))

(* What is in flight at each stage. *)
TypeInv ==
    /\ host \in Platforms /\ path \in Seq(Bytes) /\ stage \in Stages /\ made \in BOOLEAN

FlowInv ==
    /\ stage = "start" => ~made /\ uri = NoUri
    /\ stage = "intent" => uri = NoUri /\ doc = Meant /\ IsEndpoint(endpoint)
    /\ stage = "uri" =>
         \E form \in Forms, more \in {"none", "query", "fragment", "segment"} :
            /\ uri = Uri(endpoint, Text(form, path), more)
            /\ made => /\ form = "url" /\ more = "none"
                       /\ IsEndpoint(endpoint) /\ HasPath(host, Meant)
    /\ stage \in {"clicked", "emitted"} /\ uri # NoUri =>
         /\ uri = Uri(endpoint, Text("url", path), "none") /\ back = Meant
         /\ IsEndpoint(endpoint) /\ HasPath(host, Meant)
    /\ stage = "clicked" => uri # NoUri
    /\ stage = "refused" => ~made \/ uri = NoUri
    /\ stage = "emitted" => Validates(doc)

(* Records of different shapes are different. *)
LEMMA NotFailed == \A e, enc, t : Intent(e, enc, t) # Failed
<1>1. \A e, enc, t : Intent(e, enc, t).schema = "open-intent"
  BY DEF Intent
<1>2. Failed.schema = "none"
  BY DEF Failed
<1>3. QED
  BY <1>1, <1>2

LEMMA NotNoUri == \A e, t, m : Uri(e, t, m) # NoUri
<1>1. \A e, t, m : Uri(e, t, m).prefix = TRUE
  BY DEF Uri
<1>2. NoUri.prefix = FALSE
  BY DEF NoUri
<1>3. QED
  BY <1>1, <1>2

(* What a path that is absolute on a platform is in the portable rules. *)
LEMMA AbsoluteIsPortable ==
    ASSUME NEW p \in Seq(Bytes)
    PROVE  /\ IsAbsolute("unix", p) => At(p, 1, {"/"}) /\ p # <<>>
           /\ IsAbsolute("windows", p) => IsWindowsAbsolute(p) /\ p # <<>>
<1>1. \A i \in Nat \ {0} : \A S : At(p, i, S) => p # <<>>
  BY DEF At
<1>2. QED
  BY <1>1 DEF IsAbsolute, IsWindowsAbsolute, IsDrive, IsUnc

(* Lossy conversion keeps length, separators and the drive, and leaves     *)
(* text.                                                                   *)
LEMMA EncodedKeeps ==
    ASSUME NEW p \in Seq(Bytes)
    PROVE  LET q == EncodedPath("windows", p) IN
           /\ q \in Seq(Bytes) /\ Len(q) = Len(p) /\ DOMAIN q = DOMAIN p
           /\ IsUtf8(q)
           /\ ~HasNul(p) => ~HasNul(q)
           /\ IsWindowsAbsolute(p) => IsWindowsAbsolute(q)
<1> DEFINE q == EncodedPath("windows", p)
<1>1. q = [i \in 1 .. Len(p) |-> IF p[i] = "ff" THEN "c" ELSE p[i]] /\ DOMAIN p = 1 .. Len(p)
  BY DEF EncodedPath
<1>2. Len(p) \in Nat /\ \A i \in 1 .. Len(p) : p[i] \in Bytes
  OBVIOUS
<1>3. q \in [1 .. Len(p) -> Bytes]
  BY <1>1, <1>2 DEF Bytes
<1>4. q \in Seq(Bytes) /\ Len(q) = Len(p) /\ DOMAIN q = DOMAIN p
  BY <1>1, <1>2, <1>3
<1>5. \A i \in 1 .. Len(p) :
          /\ q[i] # "ff"
          /\ p[i] # "ff" => q[i] = p[i]
          /\ q[i] = "nul" => p[i] = "nul"
  BY <1>1
<1>6. IsUtf8(q) /\ (~HasNul(p) => ~HasNul(q))
  BY <1>1, <1>4, <1>5 DEF IsUtf8, HasNul
<1>7. ASSUME NEW i \in Nat \ {0}, NEW S, "ff" \notin S, At(p, i, S) PROVE At(q, i, S)
  <2>1. i \in 1 .. Len(p) /\ p[i] \in S
    BY <1>2, <1>7 DEF At
  <2>2. q[i] = p[i]
    <3>1. p[i] # "ff"
      BY <1>7, <2>1
    <3>2. QED
      BY <1>5, <2>1, <3>1
  <2>3. QED
    BY <1>4, <2>1, <2>2 DEF At
<1>8. IsWindowsAbsolute(p) => IsWindowsAbsolute(q)
  <2>1. /\ "ff" \notin {"c"} /\ "ff" \notin {":"} /\ "ff" \notin Separators
        /\ 1 \in Nat \ {0} /\ 2 \in Nat \ {0} /\ 3 \in Nat \ {0}
    BY DEF Separators
  <2>2. /\ At(p, 1, {"c"}) => At(q, 1, {"c"})
        /\ At(p, 2, {":"}) => At(q, 2, {":"})
        /\ At(p, 3, Separators) => At(q, 3, Separators)
        /\ At(p, 1, Separators) => At(q, 1, Separators)
        /\ At(p, 2, Separators) => At(q, 2, Separators)
    BY <1>7, <2>1
  <2>3. QED
    BY <2>2 DEF IsWindowsAbsolute, IsDrive
<1>9. QED
  BY <1>4, <1>6, <1>8

(* An offered reference validates. *)
LEMMA OfferIsValid ==
    ASSUME NEW h \in Platforms, NEW p \in Seq(Bytes), NEW t \in Tokens,
           IsAbsolute(h, p), ~HasNul(p)
    PROVE  Validates(Offer(h, t, p))
<1> DEFINE d == Offer(h, t, p)
           q == EncodedPath(h, p)
<1>1. /\ d.schema = "artifact-ref" /\ d.token = t /\ d.encoding = PathEncoding(h)
      /\ d.path = [form |-> "standard", bytes |-> q]
      /\ d.digest = [form |-> "standard", bytes |-> 32] /\ d.within = TRUE
  BY DEF Offer, Reference, Text
<1>2. q # <<>> /\ ~HasNul(q)
  <2>1. CASE h = "unix"
    BY <2>1, AbsoluteIsPortable DEF EncodedPath
  <2>2. CASE h = "windows"
    <3>1. p # <<>> /\ q \in Seq(Bytes) /\ Len(q) = Len(p) /\ ~HasNul(q)
      BY <2>2, AbsoluteIsPortable, EncodedKeeps
    <3>2. QED
      BY <3>1
  <2>3. QED
    BY <2>1, <2>2 DEF Platforms
<1>3. \/ PathEncoding(h) = "unix_bytes" /\ At(q, 1, {"/"})
      \/ PathEncoding(h) = "utf8" /\ IsUtf8(q) /\ IsWindowsAbsolute(q)
  <2>1. CASE h = "unix"
    BY <2>1, AbsoluteIsPortable DEF EncodedPath, PathEncoding
  <2>2. CASE h = "windows"
    BY <2>2, AbsoluteIsPortable, EncodedKeeps DEF PathEncoding
  <2>3. QED
    BY <2>1, <2>2 DEF Platforms
<1>4. IsReference(d)
  BY <1>1, <1>2, <1>3 DEF IsReference, IsToken
<1>5. QED
  BY <1>1, <1>4 DEF Validates

(* A probe receipt numbers each exchange from 0. *)
LEMMA ProbedIsValid ==
    ASSUME NEW n \in Nat, NEW m \in Nat
    PROVE  Validates(Probed(n, m))
<1> DEFINE d == Probed(n, m)
           Numbered(k) == [j \in 1 .. k |-> j - 1]
<1>1. /\ d.schema = "probe-receipt"
      /\ d.exchanges = <<Exchange(Numbered(n), TRUE), Exchange(Numbered(m), TRUE)>>
  BY DEF Probed, ProbeReceipt
<1>2. ASSUME NEW k \in Nat PROVE IsExchange(Exchange(Numbered(k), TRUE))
  <2>1. Exchange(Numbered(k), TRUE).events = Numbered(k) /\ Exchange(Numbered(k), TRUE).sound
    BY DEF Exchange
  <2>2. QED
    BY <2>1 DEF IsExchange
<1>3. IsProbeReceipt(d)
  <2>1. DOMAIN d.exchanges = 1 .. 2
    BY <1>1
  <2>2. /\ d.exchanges[1] = Exchange(Numbered(n), TRUE)
        /\ d.exchanges[2] = Exchange(Numbered(m), TRUE)
    BY <1>1
  <2>3. IsExchange(d.exchanges[1]) /\ IsExchange(d.exchanges[2])
    BY <1>2, <2>2
  <2>4. QED
    BY <2>1, <2>3 DEF IsProbeReceipt
<1>4. QED
  BY <1>1, <1>3 DEF Validates

(* Ready records and receipts. *)
LEMMA SmallIsValid ==
    ASSUME NEW e, IsEndpoint(e) PROVE Validates(Ready(e)) /\ Validates(Receipt(e, 1))
  BY ContractsAssumption DEF Validates, Ready, Receipt, IsReady, IsReceipt

(* An intent that arrived with a usable path. *)
LEMMA IntentIsValid ==
    ASSUME NEW i, NEW h, HasPath(h, i), IsEndpoint(i.endpoint) PROVE Validates(i)
  BY DEF Validates, HasPath, IsPortable

-----------------------------------------------------------------------------
(* The steps. *)
LEMMA FlowInit == Init => TypeInv /\ FlowInv
  BY ContractsAssumption DEF Init, TypeInv, FlowInv, Stages

LEMMA TypeStep == TypeInv /\ [Next]_vars => TypeInv'
  BY DEF TypeInv, Next, vars, MakeIntent, WriteUri, ForeignUri, Click, Forward, Emit, Stages

(* What each command leaves in flight. *)
LEMMA FlowStep ==
    ASSUME TypeInv, FlowInv, [Next]_vars PROVE FlowInv'
<1>1. CASE MakeIntent
  <2>1. UNCHANGED <<host, path, endpoint, uri, back>> /\ uri = NoUri /\ IsEndpoint(endpoint)
    BY <1>1 DEF MakeIntent, FlowInv
  <2>2. stage' = "refused" \/ (stage' = "intent" /\ doc' # Failed)
    BY <1>1 DEF MakeIntent
  <2>3. doc' # Failed => doc' = Meant'
    BY <1>1, <2>1 DEF MakeIntent, FromPath, Meant
  <2>4. QED
    BY <2>1, <2>2, <2>3 DEF FlowInv
<1>2. CASE WriteUri
  <2>1. /\ UNCHANGED <<host, path, endpoint, doc, made, back>>
        /\ doc = Meant /\ IsEndpoint(endpoint)
        /\ uri' = MakeUri(host, Meant)
        /\ stage' = IF uri' = NoUri THEN "refused" ELSE "uri"
    BY <1>2 DEF WriteUri, FlowInv
  <2>2. Meant.endpoint = endpoint /\ Meant.target.bytes = path
    BY DEF Meant, Intent, Text
  <2>3. CASE uri' = NoUri
    BY <2>1, <2>3 DEF FlowInv
  <2>4. CASE uri' # NoUri
    <3>1. uri' = Uri(endpoint, Text("url", path), "none") /\ HasPath(host, Meant)
      BY <2>1, <2>2, <2>4 DEF MakeUri
    <3>2. Meant' = Meant
      BY <2>1 DEF Meant
    <3>3. stage' = "uri" /\ "url" \in Forms
      BY <2>1, <2>4 DEF Forms
    <3>4. QED
      BY <2>1, <3>1, <3>2, <3>3 DEF FlowInv
  <2>5. QED
    BY <2>3, <2>4
<1>3. CASE ForeignUri
  BY <1>3 DEF ForeignUri, FlowInv
<1>4. CASE Click
  <2>1. /\ UNCHANGED <<host, path, endpoint, doc, made, uri>>
        /\ back' = ParseUri(host, uri) /\ stage = "uri"
        /\ stage' = IF back' = Failed THEN "refused" ELSE "clicked"
    BY <1>4 DEF Click
  <2>2. PICK form \in Forms, more \in {"none", "query", "fragment", "segment"} :
           /\ uri = Uri(endpoint, Text(form, path), more)
           /\ made => /\ form = "url" /\ more = "none"
                      /\ IsEndpoint(endpoint) /\ HasPath(host, Meant)
    BY <2>1 DEF FlowInv
  <2>3. /\ uri.prefix /\ uri.endpoint = endpoint /\ uri.text = Text(form, path)
        /\ uri.more = more /\ uri.text.bytes = path /\ uri # NoUri
    BY <2>2, NotNoUri DEF Uri, Text
  <2>4. Meant' = Meant
    BY <2>1 DEF Meant
  <2>5. CASE back' = Failed
    <3>1. ~made
      <4>1. SUFFICES ASSUME made PROVE FALSE
        OBVIOUS
      <4>2. HasPath(host, Meant) /\ form = "url" /\ more = "none" /\ IsEndpoint(endpoint)
        BY <2>2, <4>1
      <4>3. path # <<>>
        BY <4>2 DEF HasPath, IsPortable, ValidTargetBytes, Meant, Intent, Text
      <4>4. back' = Meant
        BY <2>1, <2>3, <4>2, <4>3 DEF ParseUri, Meant
      <4>5. QED
        BY <2>5, <4>4, NotFailed DEF Meant
    <3>2. QED
      BY <2>1, <2>5, <3>1 DEF FlowInv
  <2>6. CASE back' # Failed
    <3>1. /\ more = "none" /\ IsEndpoint(endpoint)
          /\ back' = Intent(endpoint, PathEncoding(host), Text(form, path))
          /\ HasPath(host, back')
      BY <2>1, <2>3, <2>6 DEF ParseUri
    <3>2. form = "url"
      BY <3>1 DEF HasPath, IsPortable, Intent, Text
    <3>3. back' = Meant /\ HasPath(host, Meant)
      BY <3>1, <3>2 DEF Meant
    <3>4. stage' = "clicked"
      BY <2>1, <2>6
    <3>5. QED
      BY <2>1, <2>2, <2>3, <2>4, <3>1, <3>2, <3>3, <3>4 DEF FlowInv
  <2>7. QED
    BY <2>5, <2>6
<1>5. CASE Forward
  <2>1. /\ UNCHANGED <<host, path, endpoint, uri, back>> /\ stage' = "emitted"
        /\ HasPath(host, back) /\ doc' = back /\ stage = "clicked"
    BY <1>5 DEF Forward
  <2>2. uri = Uri(endpoint, Text("url", path), "none") /\ back = Meant /\ IsEndpoint(endpoint)
        /\ HasPath(host, Meant) /\ Meant' = Meant
    BY <2>1 DEF FlowInv, Meant
  <2>3. Validates(back)
    BY <2>1, <2>2, IntentIsValid DEF Meant, Intent
  <2>4. QED
    BY <2>1, <2>2, <2>3 DEF FlowInv
<1>6. CASE Emit
  <2>1. UNCHANGED <<host, path, endpoint, uri, back>> /\ uri = NoUri /\ stage' = "emitted"
    BY <1>6 DEF Emit, FlowInv
  <2>2. Validates(doc')
    BY <1>6, OfferIsValid, ProbedIsValid, SmallIsValid DEF Emit, TypeInv
  <2>3. QED
    BY <2>1, <2>2 DEF FlowInv
<1>7. CASE UNCHANGED vars
  BY <1>7 DEF vars, FlowInv, Meant
<1>8. QED
  BY <1>1, <1>2, <1>3, <1>4, <1>5, <1>6, <1>7 DEF Next

LEMMA FlowAlways == Spec => [](TypeInv /\ FlowInv)
  BY FlowInit, TypeStep, FlowStep, PTL DEF Spec

(* Whatever a builder writes, on either platform and for every path, token *)
(* and number of events, the validator of its schema accepts.              *)
THEOREM EmittedCorrect == Spec => []EmittedIsValid
<1>1. FlowInv => EmittedIsValid
  BY DEF FlowInv, EmittedIsValid
<1>2. QED
  BY <1>1, FlowAlways, PTL

(* The link that `intent uri` prints is never refused, and leads back to   *)
(* every byte of the path it was made from.                                *)
THEOREM LinkCorrect == Spec => []LinkLeadsBack
<1>1. TypeInv /\ FlowInv => LinkLeadsBack
  <2>1. Meant.endpoint = endpoint /\ Meant.target.bytes = path
    BY DEF Meant, Intent, Text
  <2>2. QED
    BY <2>1 DEF TypeInv, FlowInv, LinkLeadsBack, Stages
<1>2. QED
  BY <1>1, FlowAlways, PTL

(* parse_uri accepts one URI for each intent, the one uri would write.     *)
THEOREM UriCorrect == Spec => []UriIsCanonical
<1>1. FlowInv => UriIsCanonical
  <2>1. Meant.endpoint = endpoint /\ Meant.target.bytes = path
    BY DEF Meant, Intent, Text
  <2>2. QED
    BY <2>1 DEF FlowInv, UriIsCanonical, MakeUri
<1>2. QED
  BY <1>1, FlowAlways, PTL
=============================================================================
