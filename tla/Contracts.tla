----------------------------- MODULE Contracts ------------------------------
(***************************************************************************)
(* The documents that leave the program and come back: open intents and    *)
(* their URIs, receipts, ready records, artifact references and probe      *)
(* receipts, on Unix and on Windows, as they are built, encoded, decoded   *)
(* and validated. A path is a sequence of tokens, one for each kind of     *)
(* byte the code tells apart; Base64 text is the bytes and the form they   *)
(* were written in. Negotiation has the remaining contract.                *)
(***************************************************************************)
EXTENDS Naturals, Sequences

CONSTANTS Paths,       \* sequences of Bytes
          Endpoints,   \* endpoint texts, canonical or not
          Canonical,   \* the canonical ones: 32 lowercase hexadecimal characters
          Tokens,      \* artifact tokens as random_token makes them
          MaxTarget,   \* MAX_TARGET_BYTES
          MaxDetail,   \* MAX_FRAME_BYTES, as a bound on a receipt's detail
          MaxEvents    \* bound on the events of an exchange

(* "c" is a letter, "ff" is no part of UTF-8 text. *)
Bytes == {"/", "\\", "c", ":", "nul", "ff"}

Platforms == {"unix", "windows"}

(* Standard Base64, URL-safe without padding, padded or with stray bits in  *)
(* the last character. No text that decodes in one form does in another.    *)
Forms == {"standard", "url", "url-padded", "url-loose"}

ASSUME ContractsAssumption ==
    /\ Paths \subseteq Seq(Bytes)
    /\ Canonical \subseteq Endpoints
    /\ {MaxTarget, MaxDetail} \subseteq Nat \ {0}
    /\ MaxEvents \in Nat

VARIABLES
    host,    \* the platform of the process that makes a document
    path,    \* the path it is given
    endpoint,
    doc,     \* the document in flight
    made,    \* whether this program made it
    uri,     \* the URI in flight
    back,    \* the intent that parse_uri made of it
    stage

vars == <<host, path, endpoint, doc, made, uri, back, stage>>

Text(form, bytes) == [form |-> form, bytes |-> bytes]

-----------------------------------------------------------------------------
(* Paths *)

At(p, i, set) == i <= Len(p) /\ p[i] \in set
Separators == {"/", "\\"}

(* Path::is_absolute. On Windows a drive and a separator, or a server and a *)
(* share; verbatim and device paths begin like the latter.                  *)
IsUnc(p) ==
    /\ At(p, 1, Separators) /\ At(p, 2, Separators)
    /\ \E i \in 4 .. Len(p) :
           /\ p[i] \in Separators /\ At(p, i + 1, Bytes \ Separators)
           /\ \A j \in 3 .. (i - 1) : p[j] \notin Separators
IsDrive(p) == At(p, 1, {"c"}) /\ At(p, 2, {":"}) /\ At(p, 3, Separators)
IsAbsolute(platform, p) ==
    IF platform = "unix" THEN At(p, 1, {"/"}) ELSE IsDrive(p) \/ IsUnc(p)

(* is_windows_absolute, the same in both crates *)
IsWindowsAbsolute(p) ==
    IsDrive(p) \/ (At(p, 1, Separators) /\ At(p, 2, Separators))

IsUtf8(p) == \A i \in DOMAIN p : p[i] # "ff"
HasNul(p) == \E i \in DOMAIN p : p[i] = "nul"

ValidTargetBytes(p) == Len(p) \in 1 .. MaxTarget /\ ~HasNul(p)

PathEncoding(platform) == IF platform = "unix" THEN "unix_bytes" ELSE "utf8"

-----------------------------------------------------------------------------
(* Open intents *)

Intent(e, encoding, text) ==
    [schema |-> "open-intent", endpoint |-> e, encoding |-> encoding, target |-> text]
Failed == [schema |-> "none"]

(* EndpointId::parse *)
IsEndpoint(e) == e \in Canonical

FromPath(platform, e, p) ==
    IF IsAbsolute(platform, p) /\ ValidTargetBytes(p)
    THEN Intent(e, PathEncoding(platform), Text("url", p))
    ELSE Failed

(* portable_path_bytes, which validate_portable is: the declared encoding   *)
(* decides what an absolute path is.                                        *)
IsPortable(i) ==
    /\ i.schema = "open-intent"
    /\ i.target.form = "url"
    /\ ValidTargetBytes(i.target.bytes)
    /\ IF i.encoding = "unix_bytes"
       THEN At(i.target.bytes, 1, {"/"})
       ELSE IsUtf8(i.target.bytes) /\ IsWindowsAbsolute(i.target.bytes)

(* Whether OpenIntentV1::path returns the target's bytes on a platform. *)
HasPath(platform, i) ==
    /\ IsPortable(i)
    /\ i.encoding = PathEncoding(platform)
    /\ IsAbsolute(platform, i.target.bytes)

(* A URI's parts; "more" is what follows the target, a query, a fragment or *)
(* another segment.                                                         *)
Uri(e, text, more) == [prefix |-> TRUE, endpoint |-> e, text |-> text, more |-> more]
NoUri == [prefix |-> FALSE]

(* Fault: the intent is written without decoding its own path first. *)
MakeUriUnchecked(platform, i) == Uri(i.endpoint, Text("url", i.target.bytes), "none")

MakeUri(platform, i) ==
    IF HasPath(platform, i) THEN Uri(i.endpoint, Text("url", i.target.bytes), "none") ELSE NoUri

(* Fault: a query is ignored. *)
ParseUriLenient(platform, u) ==
    LET i == Intent(u.endpoint, PathEncoding(platform), u.text)
    IN  IF u.prefix /\ IsEndpoint(u.endpoint) /\ HasPath(platform, i) THEN i ELSE Failed

ParseUri(platform, u) ==
    IF /\ u.prefix
       /\ u.more = "none"
       /\ IsEndpoint(u.endpoint)
       /\ u.text.bytes # <<>>
       /\ HasPath(platform, Intent(u.endpoint, PathEncoding(platform), u.text))
    THEN Intent(u.endpoint, PathEncoding(platform), u.text)
    ELSE Failed

-----------------------------------------------------------------------------
(* The other documents *)

Receipt(e, detail) == [schema |-> "intent-receipt", endpoint |-> e, detail |-> detail]
IsReceipt(d) == IsEndpoint(d.endpoint) /\ d.detail \in 1 .. MaxDetail

Ready(e) == [schema |-> "intent-ready", endpoint |-> e, prefix |-> e]
IsReady(d) == IsEndpoint(d.endpoint) /\ d.prefix = d.endpoint

(* The token is written bare; parse_token also takes it after "@" or the    *)
(* URI prefix, and validate takes what parse_token does.                    *)
Reference(t, prefix, encoding, text, digest, within) ==
    [schema |-> "artifact-ref", token |-> t, prefix |-> prefix, encoding |-> encoding,
     path |-> text, digest |-> digest, within |-> within]
IsToken(t) == t \in Tokens
IsReference(d) ==
    /\ IsToken(d.token)
    /\ d.path.form = "standard" /\ d.path.bytes # <<>> /\ ~HasNul(d.path.bytes)
    /\ \/ d.encoding = "unix_bytes" /\ At(d.path.bytes, 1, {"/"})
       \/ d.encoding = "utf8" /\ IsUtf8(d.path.bytes) /\ IsWindowsAbsolute(d.path.bytes)
    /\ d.digest.form = "standard" /\ d.digest.bytes = 32
    /\ d.within

(* encode_path: to_string_lossy on Windows. *)
EncodedPath(platform, p) ==
    IF platform = "unix" THEN p ELSE [i \in DOMAIN p |-> IF p[i] = "ff" THEN "c" ELSE p[i]]

Offer(platform, t, p) ==
    Reference(t, "none", PathEncoding(platform), Text("standard", EncodedPath(platform, p)),
              [form |-> "standard", bytes |-> 32], TRUE)

(* A probe receipt is its exchanges, the preparation's first, and each of   *)
(* them the numbers of its events; "sound" says its Base64 decodes.         *)
Exchange(events, sound) == [events |-> events, sound |-> sound]
ProbeReceipt(exchanges) == [schema |-> "probe-receipt", exchanges |-> exchanges]
IsExchange(x) == x.sound /\ \A k \in DOMAIN x.events : x.events[k] = k - 1
IsProbeReceipt(d) == \A k \in DOMAIN d.exchanges : IsExchange(d.exchanges[k])

(* Fault: the numbering runs on from the preparation's events. *)
ProbedOn(n, m) ==
    ProbeReceipt(<<Exchange([k \in 1 .. n |-> k - 1], TRUE),
                   Exchange([k \in 1 .. m |-> n + k - 1], TRUE)>>)

(* The adapters and prepare_transport number each exchange from 0. *)
Probed(n, m) ==
    ProbeReceipt(<<Exchange([k \in 1 .. n |-> k - 1], TRUE),
                   Exchange([k \in 1 .. m |-> k - 1], TRUE)>>)

(* validate_contract by the schema a document names. *)
Validates(d) ==
    CASE d.schema = "open-intent" -> IsEndpoint(d.endpoint) /\ IsPortable(d)
      [] d.schema = "intent-receipt" -> IsReceipt(d)
      [] d.schema = "intent-ready" -> IsReady(d)
      [] d.schema = "artifact-ref" -> IsReference(d)
      [] d.schema = "probe-receipt" -> IsProbeReceipt(d)
      [] OTHER -> FALSE

-----------------------------------------------------------------------------
(* The commands *)

Init ==
    /\ host \in Platforms
    /\ path \in Paths
    /\ endpoint \in Endpoints
    /\ doc = Failed /\ made = FALSE
    /\ uri = NoUri /\ back = Failed
    /\ stage = "start"

(* intent_uri: EndpointId::parse, from_path, then uri. *)
MakeIntent ==
    /\ stage = "start" /\ IsEndpoint(endpoint)
    /\ doc' = FromPath(host, endpoint, path)
    /\ stage' = IF doc' = Failed THEN "refused" ELSE "intent"
    /\ made' = TRUE
    /\ UNCHANGED <<host, path, endpoint, uri, back>>

WriteUri ==
    /\ stage = "intent"
    /\ uri' = MakeUri(host, doc)
    /\ stage' = IF uri' = NoUri THEN "refused" ELSE "uri"
    /\ UNCHANGED <<host, path, endpoint, doc, made, back>>

(* A URI that something else made reaches the handler. *)
ForeignUri ==
    /\ stage = "start"
    /\ \E form \in Forms, more \in {"none", "query", "fragment", "segment"} :
           uri' = Uri(endpoint, Text(form, path), more)
    /\ stage' = "uri"
    /\ UNCHANGED <<host, path, endpoint, doc, made, back>>

(* dispatch_callback *)
Click ==
    /\ stage = "uri"
    /\ back' = ParseUri(host, uri)
    /\ stage' = IF back' = Failed THEN "refused" ELSE "clicked"
    /\ UNCHANGED <<host, path, endpoint, doc, made, uri>>

(* accept and listen_for_intents: the intent that arrived is written out,   *)
(* if the listener can use its path.                                        *)
Forward ==
    /\ stage = "clicked" /\ HasPath(host, back)
    /\ doc' = back
    /\ made' = TRUE
    /\ stage' = "emitted"
    /\ UNCHANGED <<host, path, endpoint, uri, back>>

(* The documents of the other commands. A path that is offered is canonical; *)
(* a receipt's detail is a sentence.                                         *)
Emit ==
    /\ stage = "start"
    /\ \/ IsEndpoint(endpoint) /\ doc' \in {Ready(endpoint), Receipt(endpoint, 1)}
       \/ /\ IsAbsolute(host, path) /\ ~HasNul(path)
          /\ \E t \in Tokens : doc' = Offer(host, t, path)
       \/ \E n, m \in 0 .. MaxEvents : doc' = Probed(n, m)
    /\ made' = TRUE
    /\ stage' = "emitted"
    /\ UNCHANGED <<host, path, endpoint, uri, back>>

Next == MakeIntent \/ WriteUri \/ ForeignUri \/ Click \/ Forward \/ Emit

Spec == Init /\ [][Next]_vars

-----------------------------------------------------------------------------
(* Every document the program writes passes its own `contract validate`, on *)
(* the platform that wrote it and on the other: the builders and the        *)
(* validators agree on bounds, path rules, numbering and encodings.         *)
EmittedIsValid == stage = "emitted" => Validates(doc)

(* The link that `intent uri` prints leads back to the same endpoint and to *)
(* exactly the path it was made from, whatever bytes the path has.          *)
LinkLeadsBack ==
    (made /\ uri # NoUri) =>
        /\ stage # "refused"
        /\ stage # "uri" => back.endpoint = endpoint /\ back.target.bytes = path

(* Each intent has one URI: one that is accepted is the one that its intent *)
(* would be written as, so padding, stray bits, queries, fragments and more *)
(* segments are all refused (parse_uri).                                    *)
UriIsCanonical ==
    stage = "clicked" => MakeUri(host, back) = uri
=============================================================================
