------------------------------- MODULE Beeper -------------------------------
(***************************************************************************)
(* beeper.rs: one audio cue, or the preview of a theme's two.  The output  *)
(* device calls back for buffers of samples on its own thread; the player  *)
(* polls a flag, holds the stream and answers the instant the tone left    *)
(* the speakers, which a recorder cuts its recording at.  Time counts      *)
(* frames from the start of the cue; the waveform is left out.             *)
(***************************************************************************)
EXTENDS Integers

CONSTANTS
    Cues,               \* [tones, per]: how many tones, and the frames of each
    Buffer,             \* frames the device asks for at once
    Latencies,          \* frames from a callback to its first frame in the speakers
    SILENCE_PADDING, Flush,     \* frames: after the last tone; when the device tells no time
    Poll, Grace,        \* frames: between two looks at the flag; added to the timeout
    Late                \* bound: frames a callback or a sleep may be late

\* The flag is raised within a callback and the tone's end noted at the end of it: were a
\* buffer longer than the padding, a player that looks in between would see the one only.
ASSUME BeeperAssumption == Buffer \in 1..SILENCE_PADDING

\* A callback is not as late as the grace of the timeout, nor, on a device that tells no
\* time, later than the padding and the margin make up for.
ASSUME DeviceAssumption ==
    /\ Cues \subseteq [tones : Nat, per : Nat] /\ Latencies \subseteq Nat
    /\ SILENCE_PADDING \in Nat /\ Flush \in Nat /\ Poll \in Nat /\ Grace \in Nat /\ Late \in Nat
    /\ Late <= Grace + 1
    /\ \A l \in Latencies : l <= Flush => l + Buffer + Late <= Flush + SILENCE_PADDING + 1

VARIABLES
    cue, sound,     \* what is played: "start", "gap", "end" or "over", and its parameters
    lat, timed,     \* the device: its latency, and whether it reports it
    now,
    due,            \* the next callback, or Never once the device has stalled or is dropped
    clock, before,  \* sample_clock, and what it was before the buffer being filled
    finished, toneEnd,
    until,          \* when the last frame of tone handed over so far is heard
    player, wake,   \* the player: "polling", "holding" or "idle", and until when it sleeps
    played, cut     \* what it answered, and when it dropped the stream
beeperVars == <<cue, sound, lat, timed, now, due, clock, before, finished, toneEnd, until, player, wake, played, cut>>

Never == -1
TotalSamples == sound.tones * sound.per
Padded == TotalSamples + SILENCE_PADDING
BeepTimeout == TotalSamples + Grace
Least(a, b) == IF a < b THEN a ELSE b
Most(a, b) == IF a > b THEN a ELSE b

BeeperInit ==
    /\ cue = "start" /\ sound \in Cues
    /\ lat \in Latencies /\ timed \in BOOLEAN
    /\ timed \/ lat <= Flush        \* a device that tells no time is taken to be prompt
    /\ now = 0 /\ due = Never /\ clock = 0 /\ before = Never /\ finished = FALSE /\ toneEnd = Never /\ until = 0
    /\ player = "idle" /\ wake = 0 /\ played = Never /\ cut = Never

Silent(c) ==
    /\ cue' = c /\ player' = "idle" /\ due' = Never
    /\ UNCHANGED <<sound, lat, timed, now, clock, before, finished, toneEnd, until, wake, played, cut>>

---------------------------------------------------------------------------
\* Nothing to play: an empty or muted sequence answers at once.  No device, or no stream on
\* it: the cue fails, and with it the preview.
NothingPlays ==
    /\ cue \in {"start", "end"} /\ player = "idle" /\ played = Never
    /\ Silent(IF cue = "start" /\ sound.tones = 0 THEN "gap" ELSE "over")

Plays ==
    /\ cue \in {"start", "end"} /\ player = "idle" /\ played = Never
    /\ sound.tones > 0
    /\ player' = "polling" /\ wake' = 0 /\ due' = 0
    /\ UNCHANGED <<cue, sound, lat, timed, now, clock, before, finished, toneEnd, until, played, cut>>

\* The pause between the two cues of a preview.
GapEnds ==
    /\ \/ cue = "gap"
       \/ cue = "start" /\ cut # Never
    /\ cue' = "end" /\ sound' \in Cues
    /\ now' = 0 /\ due' = Never /\ clock' = 0 /\ before' = Never /\ finished' = FALSE /\ toneEnd' = Never /\ until' = 0
    /\ player' = "idle" /\ wake' = 0 /\ played' = Never /\ cut' = Never
    /\ UNCHANGED <<lat, timed>>

ToneEndInBuffer_Whole(was, is) ==  \* the tone is taken to end with the buffer's first frame
    IF was < TotalSamples /\ is >= TotalSamples THEN 0 ELSE Never

\* How many frames into the buffer the tone ends, when the buffer holds its last sample.
ToneEndInBuffer(was, is) ==
    IF was < TotalSamples /\ is >= TotalSamples THEN TotalSamples - was ELSE Never

\* The clock stops at the end of the padding, and the first frame past it raises the flag.
Fills ==
    /\ due # Never /\ due <= now /\ before = Never
    /\ clock' = Least(clock + Buffer, Padded)
    /\ before' = clock
    /\ finished' = (finished \/ clock + Buffer > Padded)
    /\ until' = IF clock < TotalSamples
                THEN now + lat + Least(Buffer, TotalSamples - clock) ELSE until
    /\ UNCHANGED <<cue, sound, lat, timed, now, due, toneEnd, player, wake, played, cut>>

\* The device calls again a buffer later, or has stalled.
NotesToneEnd ==
    /\ before # Never
    /\ LET ahead == ToneEndInBuffer(before, clock) IN
       toneEnd' = IF ahead # Never /\ timed /\ toneEnd = Never THEN now + lat + ahead ELSE toneEnd
    /\ before' = Never
    /\ due' \in {due + Buffer, Never}
    /\ UNCHANGED <<cue, sound, lat, timed, now, clock, finished, until, player, wake, played, cut>>

Looks ==
    /\ player = "polling" /\ wake <= now
    /\ ~finished /\ now <= BeepTimeout
    /\ wake' = now + Poll
    /\ UNCHANGED <<cue, sound, lat, timed, now, due, clock, before, finished, toneEnd, until, player, played, cut>>

\* Through the silence after the tone, or for a margin that covers the device's buffer.
HoldUntil == IF toneEnd # Never THEN Most(toneEnd + SILENCE_PADDING, now) ELSE now + Flush

Holds ==
    /\ player = "polling" /\ wake <= now
    /\ finished \/ now > BeepTimeout
    /\ player' = "holding" /\ wake' = HoldUntil
    /\ played' = toneEnd
    /\ UNCHANGED <<cue, sound, lat, timed, now, due, clock, before, finished, toneEnd, until, cut>>

DropsStream ==
    /\ player = "holding" /\ wake <= now /\ before = Never
    /\ player' = "idle" /\ due' = Never /\ cut' = now
    /\ played' = IF played # Never THEN played ELSE now
    /\ cue' = IF cue = "end" THEN "over" ELSE cue
    /\ UNCHANGED <<sound, lat, timed, now, clock, before, finished, toneEnd, until, wake>>

Tick ==
    /\ player # "idle" /\ before = Never
    /\ due # Never => now < due + Late
    /\ now < wake + Late
    /\ now' = now + 1
    /\ UNCHANGED <<cue, sound, lat, timed, due, clock, before, finished, toneEnd, until, player, wake, played, cut>>

BeeperNext ==
    \/ NothingPlays \/ Plays \/ GapEnds
    \/ Fills \/ NotesToneEnd \/ Looks \/ Holds \/ DropsStream \/ Tick

---------------------------------------------------------------------------
\* What the player answers is when the cue had left the speakers: no frame of it is heard
\* later, so a recording cut there has none of the cue in it, whether or not the device
\* reported its timing, and whether or not the player gave up waiting.
SilentAfterPlayed == cut # Never => until <= played \/ cut <= played

\* A cue the device took to its end is heard to its end, with the silence after it where the
\* timing is known: dropping the stream cuts nothing.
HeardWhole ==
    cut # Never /\ finished =>
        until + (IF timed /\ TotalSamples > 0 THEN SILENCE_PADDING ELSE 0) <= cut
=============================================================================
