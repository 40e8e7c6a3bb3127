--------------------------- MODULE SearchProgress ---------------------------
(***************************************************************************)
(* A search together with the delivery of its progress:                    *)
(* CollectorProgressDispatcher between the lifecycle, which publishes a    *)
(* snapshot with every revision, and a subscriber whose callback may take  *)
(* long, raise, or never return.                                           *)
(***************************************************************************)
EXTENDS CollectorEngine, Sequences

CONSTANT QueueSize   \* progress_queue_size (64)

ASSUME ProgressAssumption == QueueSize \in Nat \ {0}

VARIABLES
  pending,     \* the queue: revisions and, last, End
  deliverer,   \* the task _deliver
  shown,       \* the last revision handed to the callback
  dispatcher,  \* close has not begun, waits for the task, or has returned
  gaveUp       \* history: the wait of close timed out

progressVars == <<pending, deliverer, shown, dispatcher, gaveUp>>
searchVars   == <<vars, progressVars>>

End == -2      \* the None that close puts

ProgressTypeOK ==
  /\ TypeOK
  /\ pending \in Seq(Nat \union {-1, End}) /\ Len(pending) <= QueueSize
  /\ deliverer \in {"waiting", "calling", "ended"}
  /\ shown \in Nat \union {-1}
  /\ dispatcher \in {"open", "closing", "closed"}
  /\ gaveUp \in BOOLEAN

\* Mutant: a full queue keeps what it has.
Put_KeepOldest(queue, event) ==
  IF Len(queue) = QueueSize THEN queue ELSE Append(queue, event)

\* A full queue loses its oldest entry.
Put(queue, event) ==
  Append(IF Len(queue) = QueueSize THEN Tail(queue) ELSE queue, event)

\* start() has published the queued providers; how many of them the subscriber
\* has seen depends on how long it takes.
SearchInit ==
  /\ Init
  /\ shown \in {revision} \union 0 .. revision
  /\ \E kept \in {QueueSize, revision - shown} :
       /\ kept <= QueueSize /\ kept <= revision - shown
       /\ pending = [n \in 1 .. kept |-> revision - kept + n]
  /\ deliverer \in {"waiting", "calling"}
  /\ shown < revision => deliverer = "calling"
  /\ revision = -1 => deliverer = "waiting"
  /\ dispatcher = "open" /\ gaveUp = FALSE

\* A step of the search; publish puts its snapshot and never waits.
SearchStep ==
  /\ Next
  /\ pending' = IF revision' # revision THEN Put(pending, revision') ELSE pending
  /\ UNCHANGED <<deliverer, shown, dispatcher, gaveUp>>

\* _deliver takes an entry; the callback returns or raises at once, or is
\* awaited.
Take ==
  /\ deliverer = "waiting" /\ pending # << >>
  /\ pending' = Tail(pending)
  /\ IF Head(pending) = End
     THEN deliverer' = "ended" /\ UNCHANGED shown
     ELSE deliverer' \in {"waiting", "calling"} /\ shown' = Head(pending)
  /\ UNCHANGED <<vars, dispatcher, gaveUp>>

CallbackReturns ==
  /\ deliverer = "calling"
  /\ deliverer' = "waiting"
  /\ UNCHANGED <<vars, pending, shown, dispatcher, gaveUp>>

\* close, after the result of the search is complete.
BeginClose ==
  /\ main = "closed" /\ dispatcher = "open"
  /\ dispatcher' = "closing"
  /\ pending' = Put(pending, End)
  /\ UNCHANGED <<vars, deliverer, shown, gaveUp>>

Closed ==
  /\ dispatcher = "closing" /\ deliverer = "ended"
  /\ dispatcher' = "closed"
  /\ UNCHANGED <<vars, pending, deliverer, shown, gaveUp>>

\* Mutant: a callback that is being awaited is not cancelled.
GiveUp_WhenIdle ==
  /\ dispatcher = "closing" /\ deliverer = "waiting"
  /\ dispatcher' = "closed" /\ deliverer' = "ended" /\ gaveUp' = TRUE
  /\ UNCHANGED <<vars, pending, shown>>

\* wait_for times out and cancels the task, in the callback or between two.
GiveUp ==
  /\ dispatcher = "closing" /\ deliverer # "ended"
  /\ dispatcher' = "closed" /\ deliverer' = "ended" /\ gaveUp' = TRUE
  /\ UNCHANGED <<vars, pending, shown>>

SearchNext == SearchStep \/ Take \/ CallbackReturns \/ BeginClose \/ Closed \/ GiveUp

\* As for the search; the event loop runs the dispatcher and its timer, and
\* nothing is assumed of the callback.
SearchSpec ==
  /\ SearchInit /\ [][SearchNext]_searchVars
  /\ Fairness
  /\ WF_searchVars(Take) /\ WF_searchVars(BeginClose) /\ WF_searchVars(Closed \/ GiveUp)

----------------------------------------------------------------------------
(* Properties.                                                             *)

\* "Queue overflow coalesces obsolete nonterminal snapshots while retaining the
\* newest state and the terminal snapshot" (RM-138): a subscriber that keeps up
\* with the shutdown timeout is left with the last revision, which is terminal,
\* however many of the others it lost.
TerminalShown ==
  dispatcher = "closed" /\ ~gaveUp => shown = revision /\ terminal

\* "A slow or failing subscriber cannot hold a provider semaphore slot or stop
\* provider execution", and the dispatcher is closed "within a bounded time":
\* search() returns although adapters and the subscriber may hang for ever.
SearchReturns == <>(dispatcher = "closed")
=============================================================================
