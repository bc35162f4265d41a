----------------------------- MODULE EventWire ------------------------------
(***************************************************************************)
(* One connection of the client's /events subscription, as bytes and time: *)
(* the daemon writes blocks and a keepalive comment every KEEPALIVE ticks, *)
(* the body arrives cut anywhere (internal/sse.rs), blocks become events   *)
(* (v1/events.rs) and the reader gives up after IDLE ticks without one     *)
(* (widget_subscription/mod.rs), to sleep and connect again (retry.rs).    *)
(*                                                                         *)
(* A byte is a line end or a text, which stands for a line without its     *)
(* end.  Op_Fault is Op with a plausible bug.                              *)
(***************************************************************************)
EXTENDS Naturals, Sequences, FiniteSets, SequencesExt

CONSTANTS KEEPALIVE, IDLE,     \* ticks
          LATENCY,             \* ticks a byte may be under way on a connection that works
          INITIAL, MAXDELAY,   \* the backoff's first and largest delay
          MaxBlocks,           \* bound: events written on a connection
          MaxAttempts          \* bound: attempts

\* A keepalive that is written when it is due and arrives in time keeps a reader reading.
ASSUME WireAssumption ==
    /\ {KEEPALIVE, IDLE, LATENCY, MaxBlocks} \subseteq Nat
    /\ KEEPALIVE + LATENCY < IDLE

VARIABLES link,    \* "open", "wedged", "eof" or "asleep"
          wire,    \* bytes under way
          late,    \* ticks since there was nothing under way
          due,     \* ticks until the next keepalive
          buffer,  \* what the client has read and not yet cut into blocks
          idle,    \* ticks since the reader last got an event
          tries,   \* RetryStrategy.attempt
          delay,   \* what is left of the sleep
          wrote,   \* history: the blocks written, keepalives aside
          told     \* history: the events yielded

wireVars == <<link, wire, late, due, buffer, idle, tries, delay, wrote, told>>

\* ------------------------------------------------------------ sse.rs ---

LF == [is |-> "lf", id |-> 0]
CR == [is |-> "cr", id |-> 0]
Text(is, id) == [is |-> is, id |-> id]
Kinds == {"event", "commented", "garbled", "idle"}

\* The bytes of a block.  "commented" is an event with a comment line before it, "garbled"
\* is not UTF-8, "idle" has only fields that are ignored.
Block(kind, id, eol) ==
    LET lines == CASE kind = "commented" -> <<Text("comment", 0), Text("event", id)>>
                   [] OTHER -> <<Text(kind, id)>>
    IN  (IF Len(lines) = 2 THEN <<lines[1]>> \o eol ELSE <<>>) \o <<lines[Len(lines)]>> \o eol \o eol
KeepaliveBytes == <<Text("comment", 0), LF, LF>>

IsBoundary(bytes, i, blank) ==
    /\ i + Len(blank) - 1 <= Len(bytes)
    /\ \A k \in DOMAIN blank : bytes[i + k - 1] = blank[k]

FindBlankLine_LfOnly(bytes) ==  \* CRLF lines have no blank line
    LET at == {i \in DOMAIN bytes : IsBoundary(bytes, i, <<LF, LF>>)}
    IN  IF at = {} THEN [start |-> 0, end |-> 0]
        ELSE LET i == CHOOSE i \in at : \A j \in at : i <= j IN [start |-> i, end |-> i + 1]
\* The first blank line, either way of ending lines; end is 0 when there is none.
FindBlankLine(bytes) ==
    LET at == {i \in DOMAIN bytes : IsBoundary(bytes, i, <<LF, LF>>) \/ IsBoundary(bytes, i, <<CR, LF, CR, LF>>)}
    IN  IF at = {} THEN [start |-> 0, end |-> 0]
        ELSE LET i == CHOOSE i \in at : \A j \in at : i <= j
             IN  [start |-> i, end |-> IF bytes[i] = LF THEN i + 1 ELSE i + 3]

\* What a block says: its event (the last one named), and whether it holds a comment.
ParseFields(block) ==
    LET named == {i \in DOMAIN block : block[i].is = "event"}
    IN  [event |-> IF named = {} THEN 0 ELSE block[Max(named)].id,
         comment |-> \E i \in DOMAIN block : block[i].is = "comment"]

\* ---------------------------------------------------------- v1/events.rs ---

NoEvent == [name |-> "none", id |-> 0]
ParseWidgetBlock(block) ==
    LET fields == ParseFields(block)
    IN  CASE fields.event # 0 -> [name |-> "event", id |-> fields.event]
          [] fields.event = 0 /\ fields.comment -> [name |-> "keepalive", id |-> 0]
          [] OTHER -> NoEvent

\* A block that is not UTF-8 is an event named error, and the next block is read.
EventOf(block) ==
    IF \E i \in DOMAIN block : block[i].is = "garbled" THEN [name |-> "error", id |-> 0]
    ELSE ParseWidgetBlock(block)

\* ------------------------------------------------------------ the daemon ---

WireInit ==
    /\ link = "open" /\ wire = <<>> /\ late = 0 /\ due = KEEPALIVE /\ buffer = <<>>
    /\ idle = 0 /\ tries = 0 /\ delay = 0 /\ wrote = <<>> /\ told = <<>>

Write(kind, eol) ==
    /\ link = "open" /\ Len(wrote) < MaxBlocks
    /\ wrote' = Append(wrote, kind)
    /\ wire' = wire \o Block(kind, Len(wrote'), eol)
    /\ UNCHANGED <<link, late, due, buffer, idle, tries, delay, told>>

WriteKeepalive ==
    /\ link = "open" /\ due = 0 /\ due' = KEEPALIVE
    /\ wire' = wire \o KeepaliveBytes
    /\ UNCHANGED <<link, late, buffer, idle, tries, delay, wrote, told>>

\* The connection falls silent without an end, or it ends (bytes under way still arrive).
Wedges == link = "open" /\ link' = "wedged"
          /\ UNCHANGED <<wire, late, due, buffer, idle, tries, delay, wrote, told>>
Ends == link = "open" /\ link' = "eof"
        /\ UNCHANGED <<wire, late, due, buffer, idle, tries, delay, wrote, told>>

\* ------------------------------------------------------------ the reader ---

\* A frame of the body: any part of what is under way.
Arrive(n) ==
    /\ link \in {"open", "eof"} /\ FindBlankLine(buffer).end = 0
    /\ n \in 1 .. Len(wire)
    /\ buffer' = buffer \o SubSeq(wire, 1, n) /\ wire' = SubSeq(wire, n + 1, Len(wire))
    /\ late' = IF wire' = <<>> THEN 0 ELSE late
    /\ UNCHANGED <<link, due, idle, tries, delay, wrote, told>>

\* The next block of the buffer; its event, if it makes one, resets the deadline and is
\* yielded unless it is for the reader itself.
CutBlock ==
    LET boundary == FindBlankLine(buffer)
        event == EventOf(SubSeq(buffer, 1, boundary.start - 1))
    IN  /\ link \in {"open", "eof", "wedged"} /\ boundary.end # 0
        /\ buffer' = SubSeq(buffer, boundary.end + 1, Len(buffer))
        /\ idle' = IF event = NoEvent THEN idle ELSE 0
        /\ told' = IF event.name \in {"event", "error"} THEN Append(told, event) ELSE told
        /\ UNCHANGED <<link, wire, late, due, tries, delay, wrote>>

\* RetryStrategy::next_delay, its jitter any of the values it takes.
Capped(attempt) == LET grown == INITIAL * 2 ^ attempt IN IF grown < MAXDELAY THEN grown ELSE MAXDELAY
NextDelay(attempt) ==
    LET jitter == Capped(attempt) \div 10
    IN  IF jitter = 0 THEN {Capped(attempt)}
        ELSE {Capped(attempt) + j - jitter : j \in 0 .. 2 * jitter - 1}

Sleep ==
    /\ link' = "asleep" /\ delay' \in NextDelay(tries)
    /\ tries' = IF tries < MaxAttempts THEN tries + 1 ELSE tries
    /\ UNCHANGED <<wire, late, due, buffer, idle, wrote, told>>

\* Either end of reading: the deadline, or the stream (a block cut short is dropped).
IdleTimeout == link \in {"open", "wedged"} /\ idle = IDLE /\ Sleep
StreamEnds == link = "eof" /\ wire = <<>> /\ FindBlankLine(buffer).end = 0 /\ Sleep

\* The daemon answers with a new stream, which resets the strategy, or does not.
Reconnect ==
    /\ link = "asleep" /\ delay = 0
    /\ \/ /\ link' = "open" /\ tries' = 0 /\ idle' = 0 /\ due' = KEEPALIVE /\ late' = 0
          /\ wire' = <<>> /\ buffer' = <<>> /\ wrote' = <<>> /\ told' = <<>>
          /\ UNCHANGED delay
       \/ Sleep

\* Time passes while nobody is late: a block is cut at once, a keepalive is written when
\* it is due, a byte is under way for LATENCY at most unless the connection is wedged.
WireTick ==
    /\ FindBlankLine(buffer).end = 0
    /\ \/ /\ link = "open" /\ idle < IDLE /\ due > 0
          /\ wire # <<>> => late < LATENCY
          /\ due' = due - 1 /\ idle' = idle + 1
          /\ late' = IF wire = <<>> THEN 0 ELSE late + 1
          /\ UNCHANGED delay
       \/ /\ link = "wedged" /\ idle < IDLE /\ idle' = idle + 1 /\ UNCHANGED <<due, late, delay>>
       \/ /\ link = "asleep" /\ delay > 0 /\ delay' = delay - 1 /\ UNCHANGED <<due, late, idle>>
    /\ UNCHANGED <<link, wire, buffer, tries, wrote, told>>

WireNext ==
    \/ \E kind \in Kinds, eol \in {<<LF>>, <<CR, LF>>} : Write(kind, eol)
    \/ WriteKeepalive \/ Wedges \/ Ends
    \/ \E n \in 1 .. Len(wire) : Arrive(n)
    \/ CutBlock \/ IdleTimeout \/ StreamEnds \/ Reconnect \/ WireTick

\* ------------------------------------------------------------ properties ---

\* The blocks up to the n-th that make an event.
Shown(n) == {k \in 1 .. n : wrote[k] # "idle"}
\* The events of a connection are the ones written, in order and each once, however the
\* body is cut: a block that is not UTF-8 costs one error and not its neighbours, and a
\* comment in an event's block does not hide it.
FramedInOrder ==
    \E n \in 0 .. Len(wrote) :
        /\ Len(told) = Cardinality(Shown(n))
        /\ \A k \in Shown(n) :
              told[Cardinality(Shown(k))] =
                  IF wrote[k] = "garbled" THEN [name |-> "error", id |-> 0] ELSE [name |-> "event", id |-> k]

\* "if those stop arriving the consumer should treat the connection as dead": a
\* connection whose keepalives arrive in time is never given up for being idle, although
\* no event may be written for as long as it lasts (widget_subscription/mod.rs:20-22).
GivesUpOnlyTheSilent == link = "open" => idle < IDLE
=============================================================================
