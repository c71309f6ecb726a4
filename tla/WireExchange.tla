---------------------------- MODULE WireExchange ----------------------------
(***************************************************************************)
(* The bytes of one exchange: the request as it is built and, for tmux,    *)
(* wrapped; the terminal's replies, with keys between them and the end of  *)
(* a late reply before them, read in pieces of any size; and the KGP, DA1  *)
(* and geometry parsers, run on what has been read so far. A byte string   *)
(* is a sequence of tokens: a delimiter is a byte ("semi" and "under" are  *)
(* the semicolon and the underscore), a number, a control field, a status  *)
(* or a payload chunk is one token. Time, limits and several exchanges are *)
(* in TtyProbe. The names of the specification are its own, so that a      *)
(* module may extend it beside another.                                    *)
(***************************************************************************)
EXTENDS Naturals, Sequences, FiniteSets, SequencesExt

CONSTANTS Kinds,       \* the exchanges: subset of {"kgp", "sixel", "geometry", "image"}
          Transports,  \* subset of {"direct", "tmux"}
          KgpReplies,  \* what a terminal may say to the KGP query
          Da1Replies,  \* what it may answer to DA1
          Reports,     \* pairs it may answer to the geometry queries
          LateReplies, \* replies of an earlier exchange, whose end may come first
          KeyInputs,   \* bytes of keys the user may press
          MaxChunks    \* bound on the chunks of an image

(* Number tokens that fit 16 bits, the others, and those a size may be. *)
U16 == {"0", "4", "8", "6", "40", "62"}
Numbers == U16 \cup {"65536"}
Positive == Numbers \ {"0"}

(* What a terminal sends. Between two numbers there is a semicolon: two    *)
(* number tokens in a row would be one number.                             *)
Fields == STRING \ {"ESC", "semi"}
Parameters == {p \in Seq(Numbers \cup {"semi"}) :
                 \A i \in 1..Len(p) - 1 : p[i] = "semi" \/ p[i + 1] = "semi"}
KgpReply == [t : {"kgp"}, control : Fields, status : Fields]
Da1Reply == [t : {"da1"}, params : Parameters]
Report == [t : {"report"}, code : {"4", "8"}, size : Numbers \X Numbers]

(* A key, whose parameters are one token, holds no byte that marks a reply. *)
KeyInput == Seq(STRING \ {"under", "?", "semi"})

ASSUME WireAssumption ==
    /\ Kinds \subseteq {"kgp", "sixel", "geometry", "image"}
    /\ Transports \subseteq {"direct", "tmux"}
    /\ KgpReplies \subseteq KgpReply /\ Da1Replies \subseteq Da1Reply
    /\ Reports \subseteq Numbers \X Numbers
    /\ LateReplies \subseteq KgpReply \cup Da1Reply \cup Report
    /\ KeyInputs \subseteq KeyInput
    /\ MaxChunks \in Nat \ {0}

Own == "i=own"

-----------------------------------------------------------------------------
(* Requests.                                                               *)

ST == <<"ESC", "\\">>
Apc(control, payload) == <<"ESC", "under", "G", control, "semi">> \o payload \o ST

(* build_query of the DA1 and of the KGP adapter, build_geometry_query *)
Da1Query == <<"ESC", "[", "c">>
KgpQuery == Apc(Own, <<"AAAA">>) \o Da1Query
GeometryQuery == <<"ESC", "[", "14", "t", "ESC", "[", "18", "t">>

(* Whether chunk i of n is followed by another. *)
More(i, n) == IF i < n THEN "m=1" ELSE "m=0"

(* encode_png_display for a payload of n chunks *)
PngDisplay(n) == FlattenSeq([i \in 1..n |-> Apc(More(i, n), <<"data">>)])

Request(kind, n) ==
    CASE kind = "kgp" -> KgpQuery
      [] kind = "sixel" -> Da1Query
      [] kind = "geometry" -> GeometryQuery
      [] OTHER -> PngDisplay(n)

(* Fault: ESC is not doubled. *)
WrapPlain(payload) == <<"ESC", "P", "tmux;">> \o payload \o ST

(* wrap_passthrough *)
Wrap(payload) ==
    <<"ESC", "P", "tmux;">>
    \o FlattenSeq([i \in DOMAIN payload |->
                     IF payload[i] = "ESC" THEN <<"ESC", "ESC">> ELSE <<payload[i]>>])
    \o ST

(* transport_payload *)
Payload(transport, payload) == IF transport = "tmux" THEN Wrap(payload) ELSE payload

(* tmux removes the frame: a doubled ESC is one, ESC \ ends the frame, and *)
(* what follows is not passed on.                                          *)
Unframe(bytes) ==
    LET rest[i \in 4 .. Len(bytes) + 1] ==
            IF i >= Len(bytes) \/ (bytes[i] = "ESC" /\ bytes[i + 1] # "ESC") THEN <<>>
            ELSE <<bytes[i]>> \o rest[IF bytes[i] = "ESC" THEN i + 2 ELSE i + 1]
    IN  rest[4]

Passed(transport, bytes) == IF transport = "tmux" THEN Unframe(bytes) ELSE bytes

-----------------------------------------------------------------------------
(* Parsers.                                                                *)

At(input, o, prefix) ==
    /\ o + Len(prefix) - 1 <= Len(input)
    /\ \A i \in DOMAIN prefix : input[o + i - 1] = prefix[i]

None == [role |-> "none"]
Least(S) == CHOOSE x \in S : \A y \in S : x <= y

(* Fault: a reply that has not ended yet is taken as it is. *)
ParseApcAtOpen(input, o) ==
    IF ~At(input, o, <<"ESC", "under", "G">>) THEN None
    ELSE LET ends == {e \in o + 3 .. Len(input) - 1 : At(input, e, ST)}
             end == IF ends = {} THEN Len(input) + 1 ELSE Least(ends)
             body == SubSeq(input, o + 3, end - 1)
         IN [role |-> "reply", own |-> \E i \in DOMAIN body : body[i] = Own,
             status |-> IF Len(body) < 3 THEN <<>> ELSE SubSeq(body, 3, Len(body)),
             next |-> IF ends = {} THEN end ELSE end + 2]

(* parse_apc_event: up to the first ST; control fields before the first    *)
(* semicolon, the status after it.                                         *)
ParseApcAt(input, o) ==
    LET ends == {e \in o + 3 .. Len(input) - 1 : At(input, e, ST)}
        body == SubSeq(input, o + 3, Least(ends) - 1)
        semis == {i \in DOMAIN body : body[i] = "semi"}
        control == IF semis = {} THEN body ELSE SubSeq(body, 1, Least(semis) - 1)
    IN IF ~At(input, o, <<"ESC", "under", "G">>) \/ ends = {} THEN None
       ELSE [role |-> "reply", own |-> \E i \in DOMAIN control : control[i] = Own,
             status |-> IF semis = {} THEN <<>> ELSE SubSeq(body, Least(semis) + 1, Len(body)),
             next |-> Least(ends) + 2]

(* parse_response_at: digits and semicolons up to `c`, with at least one   *)
(* number and none that is too large. The first number is the level.       *)
ParseDa1At(input, o) ==
    LET stops == {e \in o + 3 .. Len(input) : input[e] \notin Numbers \cup {"semi"}}
        body == SubSeq(input, o + 3, Least(stops) - 1)
        levels == {i \in DOMAIN body : body[i] # "semi"}
    IN IF ~At(input, o, <<"ESC", "[", "?">>) \/ stops = {} THEN None
       ELSE IF input[Least(stops)] # "c" \/ levels = {} \/ \E i \in levels : body[i] \notin U16
            THEN None
            ELSE [role |-> "barrier", next |-> Least(stops) + 1,
                  sixel |-> \E i \in levels : i # Least(levels) /\ body[i] = "4"]

(* parse_window_pixels_at and parse_window_cells_at: everything up to the  *)
(* first `t` is two numbers, neither zero, cells within 16 bits.           *)
ParseReportAt(input, o, code, limit) ==
    LET ends == {e \in o + 4 .. Len(input) : input[e] = "t"}
        body == SubSeq(input, o + 4, Least(ends) - 1)
    IN IF ~At(input, o, <<"ESC", "[", code, "semi">>) \/ ends = {} THEN None
       ELSE IF /\ Len(body) = 3 /\ body[2] = "semi"
               /\ {body[1], body[3]} \subseteq limit \cap Positive
            THEN [role |-> code, size |-> body, next |-> Least(ends) + 1]
            ELSE None

(* What the parser for an exchange tries at an offset. *)
ParseAt(kind, input, o) ==
    CASE kind = "kgp" -> LET apc == ParseApcAt(input, o)
                         IN IF apc # None THEN apc ELSE ParseDa1At(input, o)
      [] kind = "sixel" -> ParseDa1At(input, o)
      [] kind = "pixels" -> ParseReportAt(input, o, "4", Numbers)
      [] OTHER -> ParseReportAt(input, o, "8", U16)

(* parse_exchange, parse_responses, parse_window_pixels and                *)
(* parse_window_cells: on from the end of what was recognised, or by one.  *)
ParseFrom(kind, input) ==
    LET from[o \in 1 .. Len(input) + 1] ==
            LET found == ParseAt(kind, input, o) IN
            IF o > Len(input) THEN <<>>
            ELSE IF found = None THEN from[o + 1]
                 ELSE <<found>> \o from[found.next]
    IN  from

Parse(kind, input) == ParseFrom(kind, input)[1]

Roles(events, role) == {i \in DOMAIN events : events[i].role = role}

(* assess of the KGP adapter and parse_exchange of the Sixel adapter; for  *)
(* the geometry the first report of each kind, as observe_viewport takes   *)
(* them.                                                                   *)
AssessKgp(events) ==
    LET barrier == Roles(events, "barrier")
        reply == Roles(events, "reply")
        own == {i \in reply : events[i].own}
        first == events[Least(own)]
    IN CASE own # {} -> <<"available",
                CASE barrier = {} -> "inconclusive"
                  [] barrier # {} /\ first.status = <<"OK">> /\ Least(own) < Least(barrier)
                       -> "conformant"
                  [] OTHER -> "nonconformant">>
         [] own = {} /\ reply # {} -> <<"available", "nonconformant">>
         [] reply = {} /\ barrier # {} -> <<"unavailable", "not_applicable">>
         [] OTHER -> <<"unknown", "inconclusive">>

AssessSixel(events) ==
    CASE \E i \in DOMAIN events : events[i].sixel -> <<"available", "conformant">>
      [] events = <<>> -> <<"unknown", "inconclusive">>
      [] OTHER -> <<"unavailable", "not_applicable">>

FirstReport(events) == IF events = <<>> THEN <<>> ELSE events[1].size

Assess(kind, input) ==
    CASE kind = "kgp" -> AssessKgp(Parse("kgp", input))
      [] kind = "sixel" -> AssessSixel(Parse("sixel", input))
      [] OTHER -> <<FirstReport(Parse("pixels", input)), FirstReport(Parse("cells", input))>>

(* Fault: one report is enough. *)
StopsOnPixels(kind, input) ==
    IF kind = "geometry" THEN Parse("pixels", input) # <<>>
    ELSE Roles(Parse(kind, input), "barrier") # {}

(* kgp_stop_reason, da1_stop_reason and geometry_stop_reason: whether the  *)
(* collection stops.                                                       *)
Stops(kind, input) ==
    IF kind = "geometry"
    THEN Parse("pixels", input) # <<>> /\ Parse("cells", input) # <<>>
    ELSE Roles(Parse(kind, input), "barrier") # {}

-----------------------------------------------------------------------------
(* The terminal's side: what it sends, as segments of the stream.          *)

Written(d) ==
    CASE d.t = "kgp" -> Apc(d.control, <<d.status>>)
      [] d.t = "da1" -> <<"ESC", "[", "?">> \o d.params \o <<"c">>
      [] d.t = "report" -> <<"ESC", "[", d.code, "semi", d.size[1], "semi", d.size[2], "t">>
      [] OTHER -> d.key

(* A segment is what is left of a reply, or a key. *)
Segment(d, from) == [d |-> d, from |-> from, bytes |-> SubSeq(Written(d), from, Len(Written(d)))]
Whole(d) == Segment(d, 1)
Stream(segs) == FlattenSeq([i \in DOMAIN segs |-> segs[i].bytes])

(* The answers to an exchange, in the order of its queries; a KGP reply    *)
(* may be missing, or come after the answer to DA1.                        *)
Replies(kind) ==
    CASE kind = "kgp" ->
           {<<Whole(k), Whole(d)>> : k \in KgpReplies, d \in Da1Replies}
           \cup {<<Whole(d), Whole(k)>> : k \in KgpReplies, d \in Da1Replies}
           \cup {<<Whole(d)>> : d \in Da1Replies}
      [] kind = "sixel" -> {<<Whole(d)>> : d \in Da1Replies}
      [] kind = "geometry" ->
           {<<Whole([t |-> "report", code |-> "4", size |-> p]),
              Whole([t |-> "report", code |-> "8", size |-> c])>> : p \in Reports, c \in Reports}

(* The end of a late reply that the flush left, or all of it, or nothing. *)
Late == {<<>>} \cup UNION {{<<Segment(d, from)>> : from \in 1..Len(Written(d))} : d \in LateReplies}

(* A key is pressed between two of them, or none is. *)
WithKey(segs) ==
    {segs} \cup {InsertAt(segs, i, Whole([t |-> "key", key |-> k])) :
                   i \in 1..Len(segs) + 1, k \in KeyInputs}

-----------------------------------------------------------------------------
VARIABLES kind, transport, chunks,  \* what is exchanged, fixed during a behaviour
          phase,
          received,                 \* what the terminal has received
          segments,                 \* what it and the user send
          stream,                   \* the bytes of that
          arrived,                  \* how much of that has been read
          stopped                   \* whether the stop test held

wireVars == <<kind, transport, chunks, phase, received, segments, stream, arrived, stopped>>
fixed == <<kind, transport, chunks>>

(* The bytes read so far. *)
got == SubSeq(stream, 1, arrived)

WireTypeOK ==
    /\ kind \in Kinds /\ transport \in Transports /\ chunks \in 1..MaxChunks
    /\ phase \in {"send", "answer", "test", "read", "done"}
    /\ stream = Stream(segments) /\ arrived \in 0..Len(stream)
    /\ stopped \in BOOLEAN

WireInit ==
    /\ kind \in Kinds /\ transport \in Transports
    /\ chunks \in 1..(IF kind = "image" THEN MaxChunks ELSE 1)
    /\ phase = "send"
    /\ received = <<>> /\ segments = <<>> /\ stream = <<>> /\ arrived = 0 /\ stopped = FALSE

(* The request is written, and passed on by tmux if it was wrapped. *)
Send ==
    /\ phase = "send"
    /\ received' = Passed(transport, Payload(transport, Request(kind, chunks)))
    /\ phase' = IF kind = "image" THEN "done" ELSE "answer"
    /\ UNCHANGED <<fixed, segments, stream, arrived, stopped>>

(* The terminal answers what it was asked. *)
Answer ==
    /\ phase = "answer"
    /\ \E late \in Late, replies \in Replies(kind) :
         \E typed \in WithKey(replies) : segments' = late \o typed
    /\ stream' = Stream(segments')
    /\ phase' = "test"
    /\ UNCHANGED <<fixed, received, arrived, stopped>>

(* The stop test at the head of the collection loop, on all bytes read. *)
Test ==
    /\ phase = "test"
    /\ stopped' = Stops(kind, got)
    /\ phase' = IF stopped' THEN "done" ELSE "read"
    /\ UNCHANGED <<fixed, received, segments, stream, arrived>>

(* One read of the loop, of any number of bytes that have arrived. *)
Read ==
    /\ phase = "read"
    /\ arrived' \in arrived + 1 .. Len(stream)
    /\ phase' = "test"
    /\ UNCHANGED <<fixed, received, segments, stream, stopped>>

WireNext == Send \/ Answer \/ Test \/ Read
WireSpec == WireInit /\ [][WireNext]_wireVars

-----------------------------------------------------------------------------
(* Properties.                                                             *)

(* What is left of a message the program sends through tmux is what it     *)
(* would have sent directly, however many escape sequences it holds.       *)
PassthroughIsTransparent == phase # "send" => received = Request(kind, chunks)

(* The event a reader of the protocol would see in a reply, or None. *)
Expected(parser, d, next) ==
    CASE d.t = "kgp" /\ parser = "kgp" ->
           [role |-> "reply", own |-> d.control = Own, status |-> <<d.status>>, next |-> next]
      [] /\ d.t = "da1" /\ parser \in {"kgp", "sixel"}
         /\ ToSet(d.params) \subseteq U16 \cup {"semi"} /\ ~(ToSet(d.params) \subseteq {"semi"}) ->
           [role |-> "barrier", next |-> next,
            sixel |-> \E i, j \in DOMAIN d.params : i < j /\ d.params[i] # "semi" /\ d.params[j] = "4"]
      [] /\ d.t = "report" /\ <<parser, d.code>> \in {<<"pixels", "4">>, <<"cells", "8">>}
         /\ "0" \notin ToSet(d.size) /\ (parser = "cells" => "65536" \notin ToSet(d.size)) ->
           [role |-> d.code, size |-> <<d.size[1], "semi", d.size[2]>>, next |-> next]
      [] OTHER -> None

(* The replies of which every byte is among the first read ones, as events. *)
Complete(parser, read) ==
    LET last(i) == Len(Stream(SubSeq(segments, 1, i)))
        seen(i) == IF segments[i].from = 1 /\ last(i) <= read
                   THEN Expected(parser, segments[i].d, last(i) + 1) ELSE None
    IN FlattenSeq([i \in DOMAIN segments |-> IF seen(i) = None THEN <<>> ELSE <<seen(i)>>])

Parsers(k) == IF k = "geometry" THEN {"pixels", "cells"} ELSE {k}

(* After every read a parser has recognised exactly the well-formed        *)
(* replies that have arrived whole, in order and at their place: no half   *)
(* reply, however the reads cut it, no end of a late one, no key between   *)
(* them is an event, and none of these hides an event.                     *)
RepliesAreRecognised ==
    phase \in {"read", "done"} /\ kind # "image" =>
        \A p \in Parsers(kind) : Parse(p, got) = Complete(p, arrived)

(* A KGP reply after a whole answer to DA1. *)
RepliesLate(segs) ==
    \E i, j \in DOMAIN segs :
        i < j /\ segs[i].from = 1 /\ segs[i].d.t = "da1" /\ segs[j].d.t = "kgp"

(* Where the reads happen to be cut does not change the verdict: when the  *)
(* collection stops, what was read is assessed like everything the         *)
(* terminal sends, unless an earlier exchange left a whole reply behind.   *)
(* If a KGP reply follows the answer to DA1, the cut decides whether it is *)
(* seen (kgp_stop_reason does not wait for it), but of the two verdicts    *)
(* neither lets KGP be selected.                                           *)
SplitDoesNotMatter ==
    stopped /\ (segments[1].from > 1 \/ segments[1].d \notin LateReplies) =>
        IF RepliesLate(segments)
        THEN {Assess(kind, got), Assess(kind, stream)} \subseteq
                 {<<"unavailable", "not_applicable">>, <<"available", "nonconformant">>}
        ELSE Assess(kind, got) = Assess(kind, stream)
=============================================================================
