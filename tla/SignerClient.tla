------------------------------ MODULE SignerClient -----------------------------
(***************************************************************************)
(* One request to a signer: RemoteSignerClient.approve (approvals.js) over *)
(* withDeadline and readBoundedText (bounded-response.js).  The credential *)
(* source, fetch and the body's reader are injected and may answer at      *)
(* once, late, never or with nonsense, abort signal or not.  An answer     *)
(* that is there at once is a queued microtask, and no timer fires before  *)
(* the queue is empty: a reader that always has an empty chunk ready would *)
(* keep the deadline from ever being looked at.                            *)
(***************************************************************************)
EXTENDS Integers

CONSTANTS Limits,      \* what maxResponseBytes may be configured to: any positive number
          ReadCap      \* the reader's own cap on reads, 65_535 in the code, whatever the limit

ASSUME ClientAssumption ==
  /\ Limits # {} /\ Limits \subseteq Nat \ {0}
  /\ ReadCap \in Nat \ {0}

VARIABLES maxBytes,    \* maxResponseBytes of this client
          step,        \* what approve awaits
          answer,      \* what the awaited promise settled with, if it has
          stream,      \* whether there is a response body to read
          reading,     \* approve's flag: the body is the reader's business now
          complete,    \* readBoundedText's flag: the reader was done
          cancels,     \* times the body was cancelled
          length, reads,
          wasteful,    \* the body sent an empty chunk or more than maxBytes
          result

flagVars  == <<stream, reading, complete, cancels>>
countVars == <<length, reads, wasteful>>
vars == <<maxBytes, step, answer, flagVars, countVars, result>>

Pending == [kind |-> "pending", size |-> 0]
Says(kind) == [kind |-> kind, size |-> 0]

\* What each awaited promise may settle with, by what approve tells apart.
Answers(s, limit) ==
  CASE s = "credentials" -> {Says("good"), Says("malformed"), Says("throws")}
    [] s = "fetch" -> {Says("ok"), Says("status"), Says("streamless"), Says("badLength"), Says("throws")}
    [] s = "read"  -> {Says("end"), Says("notBytes"), Says("throws")}
                      \cup [kind : {"chunk"}, size : 0..(limit + 1)]
    [] s = "done"  -> {}

\* As many reads as the smallest chunks of maxBytes bytes and their end can need,
\* unless that is beyond the cap.
MaxReads == (IF maxBytes <= ReadCap THEN maxBytes ELSE ReadCap) + 1

Failures == {"TIMEOUT", "TRANSPORT", "AUTHENTICATION", "HTTP", "STREAM", "LENGTH", "SIZE", "ENCODING", "JSON"}

TypeOK ==
  /\ maxBytes \in Limits
  /\ step \in {"credentials", "fetch", "read", "done"}
  /\ answer \in {Pending} \cup Answers(step, maxBytes)
  /\ {stream, reading, complete, wasteful} \subseteq BOOLEAN
  /\ cancels \in 0..2
  /\ length \in 0..maxBytes
  /\ reads \in 0..MaxReads
  /\ result \in {"none", "approval"} \cup Failures
  /\ step = "done" <=> result # "none"

\* Awaiting a promise: it has settled already, or it is pending.
Await(s) == step' = s /\ answer' \in {Pending} \cup Answers(s, maxBytes)

Init ==
  /\ maxBytes \in Limits
  /\ step = "credentials" /\ answer \in {Pending} \cup Answers("credentials", maxBytes)
  /\ stream = FALSE /\ reading = FALSE /\ complete = FALSE /\ cancels = 0
  /\ length = 0 /\ reads = 0 /\ wasteful = FALSE
  /\ result = "none"

\* Mutant: only the reader cancels.
CancellationsByReader(s, r, c) == IF s /\ r /\ ~c THEN 1 ELSE 0

\* The finally clauses: the reader cancels a body it has not read to its end,
\* approve cancels one it never began to read.
Cancellations(s, r, c) == (IF s /\ r /\ ~c THEN 1 ELSE 0) + (IF s /\ ~r THEN 1 ELSE 0)

\* approve settles, with the flags as they stand then.
Finish(code, s, r, c) ==
  /\ result' = code
  /\ step' = "done" /\ answer' = Pending
  /\ stream' = s /\ reading' = r /\ complete' = c
  /\ cancels' = Cancellations(s, r, c)

Fail(code) == Finish(code, stream, reading, complete)

-------------------------------------------------------------------------------
\* A dependency's promise settles, on a later turn of the event loop.
Settle ==
  /\ answer = Pending
  /\ answer' \in Answers(step, maxBytes)
  /\ UNCHANGED <<maxBytes, step, flagVars, countVars, result>>

\* The timer aborts the controller, and withDeadline rejects whatever is awaited.
Deadline ==
  /\ step # "done" /\ answer = Pending
  /\ Fail("TIMEOUT")
  /\ UNCHANGED <<maxBytes, countVars>>

Credentials ==
  /\ step = "credentials" /\ answer # Pending
  /\ CASE answer.kind = "good"      -> Await("fetch") /\ UNCHANGED <<flagVars, result>>
       [] answer.kind = "malformed" -> Fail("AUTHENTICATION")
       [] answer.kind = "throws"    -> Fail("TRANSPORT")
  /\ UNCHANGED countVars

\* Mutant: reads are not counted.
NextReadUncounted == Await("read") /\ UNCHANGED <<reads, flagVars, result>>

\* Mutant: one read too few.
NextReadFewer ==
  IF reads + 1 > MaxReads - 1
  THEN UNCHANGED reads /\ Fail("SIZE")
  ELSE reads' = reads + 1 /\ Await("read") /\ UNCHANGED <<flagVars, result>>

\* A read more, unless there were as many as there may be.
NextRead ==
  IF reads + 1 > MaxReads
  THEN UNCHANGED reads /\ Fail("SIZE")
  ELSE reads' = reads + 1 /\ Await("read") /\ UNCHANGED <<flagVars, result>>

Fetched ==
  /\ step = "fetch" /\ answer # Pending
  /\ CASE answer.kind = "throws"     -> Fail("TRANSPORT")
       [] answer.kind = "status"     -> Finish("HTTP", TRUE, FALSE, FALSE)
       [] answer.kind = "streamless" -> Finish("STREAM", FALSE, TRUE, FALSE)
       [] answer.kind = "badLength"  -> Finish("LENGTH", TRUE, TRUE, FALSE)
       [] answer.kind = "ok"         -> /\ stream' = TRUE /\ reading' = TRUE
                                        /\ Await("read")
                                        /\ UNCHANGED <<complete, cancels, result>>
  /\ reads' = IF answer.kind = "ok" THEN 1 ELSE 0
  /\ UNCHANGED <<length, wasteful>>

Fits(size) == size <= maxBytes - length

ReadChunk ==
  /\ step = "read" /\ answer.kind = "chunk"
  /\ wasteful' = (wasteful \/ answer.size = 0 \/ ~Fits(answer.size))
  /\ IF Fits(answer.size)
     THEN length' = length + answer.size /\ NextRead
     ELSE Fail("SIZE") /\ UNCHANGED <<length, reads>>

\* The body's end: it decodes and parses, or not.
ReadEnd ==
  /\ step = "read" /\ answer.kind = "end"
  /\ \E code \in {"approval", "ENCODING", "JSON"} : Finish(code, stream, reading, TRUE)
  /\ UNCHANGED countVars

ReadFails ==
  /\ step = "read" /\ answer.kind \in {"notBytes", "throws"}
  /\ Fail(IF answer.kind = "throws" THEN "TRANSPORT" ELSE "STREAM")
  /\ UNCHANGED countVars

Continue == (Credentials \/ Fetched \/ ReadChunk \/ ReadEnd \/ ReadFails) /\ UNCHANGED maxBytes

Next == Settle \/ Deadline \/ Continue

Spec == Init /\ [][Next]_vars

\* The event loop runs what is queued, and the timer when nothing is; nothing is
\* asked of the dependencies.
FairSpec == Spec /\ WF_vars(Continue) /\ WF_vars(Deadline)

-------------------------------------------------------------------------------
(* The caller is settled whatever the dependencies do: never answering,      *)
(* stalling between chunks, or feeding empty ones without end.               *)
Settles == <>(step = "done")

(* A body is cancelled exactly once if it was not read to its end, and never *)
(* if it was or if there is none, on every one of the ways out.              *)
CancelledOnce ==
  step = "done" => cancels = IF stream /\ ~complete THEN 1 ELSE 0

(* The bound on reads refuses no body it need not: one that fits the limit   *)
(* and wastes no read is never too large, not even byte by byte, unless the  *)
(* limit is above the cap on reads and the body takes more reads than that.  *)
SizeIsDeserved == result = "SIZE" => wasteful \/ (maxBytes > ReadCap /\ reads > ReadCap)
=============================================================================
