-------------------------------- MODULE Tailer --------------------------------
(***************************************************************************)
(* logstream/logstream.go: Stream, its goroutine run that asks the source  *)
(* for one poll after another and sends the lines on, and the command that *)
(* reads them ("angl logs -f", cmdLogs of observe.go), which is            *)
(* interrupted or gives up at any time.  The polls, and the writer they    *)
(* race with, are LogStream's.                                             *)
(*                                                                         *)
(* One source, and no events for errors.  The responses channel has room   *)
(* for every source, so that an answer and its arrival in run are one step.*)
(***************************************************************************)
EXTENDS LogStream

CONSTANT EventBuffer \* opts.EventBuffer

ASSUME TailerAssumption == EventBuffer \in Nat \ {0}

VARIABLES
    co,        \* where run is; "ask": it waits for its ticker, or asks at once
    ready,     \* the channel Stream waits for is closed
    pending,   \* lines of a poll that run has still to send
    out,       \* the channel of events
    gone,      \* runSource has returned
    cancelled, \* the context
    reading,   \* the command still takes events
    due        \* history: the first byte owed when Stream returned, 0 before

runVars == <<co, ready, pending, out>>
ends == <<gone, cancelled, reading, due>>
tailerVars == <<vars, runVars, ends>>

TailerTypeOK ==
    /\ TypeOK
    /\ co \in {"ask", "collect", "emit", "closed"}
    /\ ready \in BOOLEAN
    /\ pending \in Seq(Seq(Bytes)) /\ (pending # <<>> <=> co = "emit")
    /\ out \in Seq(Seq(Bytes)) /\ Len(out) <= EventBuffer
    /\ gone \in BOOLEAN /\ cancelled \in BOOLEAN /\ reading \in BOOLEAN
    /\ due \in 0 .. MaxBytes + 1

TailerInit ==
    /\ Init
    /\ co = "ask" /\ ready = FALSE /\ pending = <<>> /\ out = <<>>
    /\ gone = FALSE /\ cancelled = FALSE /\ reading = TRUE
    /\ due = 0

-----------------------------------------------------------------------------
(* run and runSource.                                                      *)

Ask ==
    /\ co = "ask" /\ ~gone
    /\ Request
    /\ co' = "collect"
    /\ UNCHANGED <<ready, pending, out, ends>>

Poll == pollStep /\ UNCHANGED <<runVars, ends>>

\* Mutant of Collect: Stream waits for the first lines to be sent.
Collect_ReadyLater ==
    /\ co = "collect" /\ ~gone
    /\ Respond
    /\ pending' = lines
    /\ ready' = (lines = <<>>)
    /\ co' = IF lines = <<>> THEN "ask" ELSE "emit"
    /\ UNCHANGED <<out, ends>>

\* The answer arrives; with the first one the tails are taken and Stream may
\* return.
Collect ==
    /\ co = "collect" /\ ~gone
    /\ Respond
    /\ pending' = lines
    /\ ready' = TRUE
    /\ co' = IF lines = <<>> THEN "ask" ELSE "emit"
    /\ UNCHANGED <<out, ends>>

\* A full channel stops the polling.
Emit ==
    /\ co = "emit"
    /\ Len(out) < EventBuffer
    /\ out' = Append(out, Head(pending))
    /\ pending' = Tail(pending)
    /\ co' = IF Len(pending) = 1 THEN "ask" ELSE "emit"
    /\ UNCHANGED <<vars, ready, ends>>

\* Mutant of Close: the send of a line does not look at the context.
Close_NotSending ==
    /\ cancelled /\ co \in {"ask", "collect"}
    /\ co' = "closed" /\ ready' = TRUE /\ pending' = <<>>
    /\ UNCHANGED <<vars, out, ends>>

\* Each select of run has the context beside its channel: ready and out are
\* closed, what was not sent is dropped.
Close ==
    /\ cancelled /\ co # "closed"
    /\ co' = "closed" /\ ready' = TRUE /\ pending' = <<>>
    /\ UNCHANGED <<vars, out, ends>>

\* So have those of runSource; a poll under way is finished first.
Leave ==
    /\ cancelled /\ ~gone /\ at \in {"idle", "respond"}
    /\ gone' = TRUE
    /\ UNCHANGED <<vars, runVars, cancelled, reading, due>>

-----------------------------------------------------------------------------
(* Stream and its caller.                                                  *)

\* Mutant of Return: Stream does not wait for the first poll.
Return_AtOnce ==
    /\ due = 0
    /\ due' = IF from # 0 THEN from ELSE written + 1
    /\ UNCHANGED <<vars, runVars, gone, cancelled, reading>>

Return ==
    /\ due = 0
    /\ ready \/ cancelled
    /\ due' = IF from # 0 THEN from ELSE written + 1
    /\ UNCHANGED <<vars, runVars, gone, cancelled, reading>>

Take ==
    /\ due # 0 /\ reading /\ out # <<>>
    /\ out' = Tail(out)
    /\ UNCHANGED <<vars, co, ready, pending, ends>>

\* Ctrl-C: the command goes on until the channel is closed.
Interrupt ==
    /\ ~cancelled
    /\ cancelled' = TRUE
    /\ UNCHANGED <<vars, runVars, gone, reading, due>>

\* The output fails: the command returns, and its deferred cancel runs.
GiveUp ==
    /\ due # 0 /\ ~cancelled
    /\ reading' = FALSE /\ cancelled' = TRUE
    /\ UNCHANGED <<vars, runVars, gone, due>>

\* Bound: what is written after the end is left out.
Write == ~cancelled /\ Writer /\ UNCHANGED <<runVars, ends>>

run == Ask \/ Collect \/ Emit

TailerNext ==
    \/ Write \/ Poll \/ run \/ Close \/ Leave
    \/ Return \/ Take \/ Interrupt \/ GiveUp

TailerSpec == TailerInit /\ [][TailerNext]_tailerVars

(***************************************************************************)
(* Fairness: the goroutines go on, a select whose context has ended takes  *)
(* that in the end, and a command that still reads takes what is there.    *)
(* Nobody has to write, interrupt or give up.  (run and Poll take turns,   *)
(* and Close, Leave and Return happen once each, so that they can share a  *)
(* condition.)                                                             *)
(***************************************************************************)
TailerFairSpec ==
    /\ TailerSpec
    /\ WF_tailerVars(run \/ Poll)
    /\ WF_tailerVars(Close \/ Leave \/ Return)
    /\ WF_tailerVars(Take)

-----------------------------------------------------------------------------
(* Properties.                                                             *)

\* The lines under way from the source to the command, in order.
UnderWay == out \o pending \o (IF at = "respond" THEN lines ELSE <<>>)

\* What the command has taken, and the last byte of it: or else the one before
\* the first that is owed.
Arrived == delivered \ (BytesOf(out) \cup BytesOf(pending))
Upto == IF Arrived = {} THEN from - 1 ELSE CHOOSE b \in Arrived : \A c \in Arrived : c <= b

\* "Following is rotation- ... aware, bounded in memory" (README.md 145): over
\* renames, limits of a poll, half written lines and a full channel, what the
\* command takes next continues what it took before, no byte is left out and
\* none comes twice.
ExactlyOnce ==
    truncated = 0 /\ ~cancelled =>
        LET u == UnderWay
        IN \A i \in 1 .. Len(u) :
              /\ u[i][1] = 1 + (IF i = 1 THEN Upto ELSE Last(u[i - 1]))
              /\ \A j \in 2 .. Len(u[i]) : u[i][j] = u[i][j - 1] + 1

\* Each line of the first tail, and each that is completed after Stream has
\* returned, reaches the command, unless it ends or a truncation took it away.
Owed ==
    {b \in Ends \ Arrived : b <= written /\ ((from # 0 /\ b >= from) \/ (due # 0 /\ b >= due))}

EveryLineArrives == Owed # {} ~> Owed = {} \/ truncated > 0 \/ cancelled

\* Stream comes back although nothing can be read before it does, and once the
\* context is cancelled the channel is closed and the goroutines end although
\* nobody may read any more.
CallsReturn ==
    due = 0 \/ cancelled ~> due # 0 /\ (cancelled => co = "closed" /\ gone)

-----------------------------------------------------------------------------
(* The inductive invariant (Tailer_proofs).                                *)

\* As long as nobody cancelled, a poll is under way exactly while run waits
\* for it.
RunInv ==
    ~cancelled =>
        /\ ~gone /\ co # "closed"
        /\ co = "collect" <=> at # "idle"

\* What was answered is what has arrived, then what is under way to the command.
SentInv ==
    ~cancelled =>
        /\ from = 0 => out = <<>> /\ pending = <<>>
        /\ truncated = 0 /\ from # 0 =>
              \E w \in from .. MaxBytes + 1 : \E x \in w .. MaxBytes + 1 :
                  delivered = from .. (x - 1) /\ Contiguous(out \o pending, w, x)

IInv == TailerTypeOK /\ SizesInv /\ StreamInv /\ (KeepsUp => RunInv /\ SentInv)
=============================================================================
