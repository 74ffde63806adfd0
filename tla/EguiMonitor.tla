----------------------------- MODULE EguiMonitor -----------------------------
(***************************************************************************)
(* The desktop's watch over eGUI submissions                               *)
(* (src/src/lib/desktop/eguiMonitor.ts): invoices whose page was opened    *)
(* are tracked in localStorage; while the window is hidden in the tray a   *)
(* cycle refreshes them one after the other and notifies of new statuses.  *)
(* The cycle works on a copy of the tracked invoices and awaits the        *)
(* window, the server and the notification; meanwhile the user may show    *)
(* the window, open an invoice, or quit.                                   *)
(*                                                                         *)
(* Abstracted: the server's submission (module EguiSubmission) to a status *)
(* that moves forward; the page shows and tracks an invoice in one step,   *)
(* and visibility does not change between its check and what follows it;   *)
(* the eviction of the oldest of more than 25 tracked invoices.            *)
(***************************************************************************)
EXTENDS Integers, FiniteSets

CONSTANTS
    Invoice,
    First, Following  \* first status of a submission, and what a refresh yields

EguiStatus == {"PENDING", "QUEUED", "SENT", "ACKED", "FAILED", "RETRYING", "DEAD_LETTER"}
Notifiable == EguiStatus \ {"PENDING", "QUEUED"}

\* The order in which _compute_next_mock_egui_status goes through the statuses.
Stage == [st \in EguiStatus |->
            CASE st = "PENDING" -> 0 [] st = "QUEUED" -> 1 [] st = "FAILED" -> 2
              [] st = "RETRYING" -> 3 [] st = "SENT" -> 4 [] OTHER -> 5]
UpTo(st, last) == st = last \/ Stage[st] < Stage[last]

MonitorAssumption ==
    /\ First \in EguiStatus /\ Following \in [EguiStatus -> EguiStatus]
    /\ \A st \in EguiStatus : UpTo(st, Following[st])

VARIABLES
    server,    \* the status of each submission
    visible,   \* whether the window is shown
    tracked,   \* localStorage: lastSeenStatus and lastNotifiedStatus by invoice
    pc, state, todo, asked, answer, changed,  \* the cycle
    told, shown,  \* history: the notifications, what the pages have shown
    standing   \* history: whether an invoice's page has been opened, and whether a
               \* cycle has disturbed what was remembered of it

cycle == <<pc, state, todo, asked, answer, changed>>
history == <<told, shown, standing>>
vars == <<server, visible, tracked, cycle, history>>

Nothing == [i \in {} |-> 0]
Without(f, i) == [j \in DOMAIN f \ {i} |-> f[j]]
With(f, i, x) == [j \in DOMAIN f \cup {i} |-> IF j = i THEN x ELSE f[j]]

Init ==
    /\ server = [i \in Invoice |-> First]
    /\ visible = TRUE
    /\ tracked = Nothing
    /\ pc = "idle" /\ state = Nothing /\ todo = {} /\ changed = FALSE
    /\ asked \in Invoice /\ answer = "none"
    /\ told = {} /\ shown = {}
    /\ standing = [i \in Invoice |-> "unknown"]
-----------------------------------------------------------------------------
(* The user, and everybody else *)

ShowOrHide ==
    /\ visible' = ~visible
    /\ UNCHANGED <<server, tracked, cycle, history>>

\* The page of an invoice: rememberTrackedEguiInvoice.
Remember(i) ==
    /\ visible
    /\ tracked' = With(tracked, i,
          [seen |-> server[i],
           notified |-> IF i \in DOMAIN tracked THEN tracked[i].notified ELSE "none"])
    /\ shown' = shown \cup {<<i, server[i]>>}
    /\ standing' = [standing EXCEPT ![i] = IF pc = "idle" THEN "watched" ELSE "disturbed"]
    /\ UNCHANGED <<server, visible, cycle, told>>

\* Another user logs in: synchronizeTrackedEguiScope.
SwitchUser ==
    /\ pc = "idle"
    /\ tracked' = Nothing
    /\ told' = {} /\ shown' = {}
    /\ standing' = [i \in Invoice |-> "unknown"]
    /\ UNCHANGED <<server, visible, cycle>>

\* Somebody else refreshes the submission.
Progress(i) ==
    /\ server' = [server EXCEPT ![i] = Following[@]]
    /\ UNCHANGED <<visible, tracked, cycle, history>>
-----------------------------------------------------------------------------
(* runDesktopEguiNotificationCycle *)

Begin ==
    /\ pc = "idle"
    /\ ~visible
    /\ tracked # Nothing
    /\ state' = tracked
    /\ todo' = DOMAIN tracked
    /\ changed' = FALSE
    /\ pc' = "loop"
    /\ UNCHANGED <<server, visible, tracked, asked, answer, history>>

\* The cycle ends without writing anything back: the window has become visible,
\* the user has logged out, the app is closed.  Notifications stay given.
Unsaved == {i \in DOMAIN state : i \notin DOMAIN tracked \/ state[i] # tracked[i]}
Leave ==
    /\ pc' = "idle"
    /\ state' = Nothing
    /\ todo' = {}
    /\ answer' = "none"
    /\ changed' = FALSE
    /\ standing' = [i \in Invoice |->
          IF i \in Unsaved \/ <<pc, asked>> = <<"told", i>> THEN "disturbed" ELSE standing[i]]
    /\ UNCHANGED <<server, visible, tracked, asked, told, shown>>
Break == pc = "loop" /\ todo # {} /\ visible /\ Leave
Quit == pc # "idle" /\ Leave

\* The next invoice; the request reaches the server, or fails.
Ask(i) ==
    /\ pc = "loop"
    /\ i \in todo
    /\ ~visible
    /\ asked' = i
    /\ pc' = "asking"
    /\ UNCHANGED <<server, visible, tracked, state, todo, answer, changed, history>>
Refresh ==
    /\ pc = "asking"
    /\ answer = "none"
    /\ \/ /\ server' = [server EXCEPT ![asked] = Following[@]]
          /\ answer' = Following[server[asked]]
       \/ answer' \in {"failed", "gone"} /\ UNCHANGED server
    /\ UNCHANGED <<visible, tracked, pc, state, todo, asked, changed, history>>

\* The rest of an iteration for which there is nothing to tell: the entry as the
\* cycle will write it back.
Entry(entry, status) == [entry EXCEPT !.seen = status]
Evicted(error) == error = "gone"
Proceed(newState) ==
    /\ state' = newState
    /\ changed' = (changed \/ newState # state)
    /\ todo' = todo \ {asked}
    /\ answer' = "none"
    /\ pc' = "loop"
    /\ standing' = [standing EXCEPT ![asked] =
                        IF @ = "watched" /\ asked \notin DOMAIN newState THEN "unknown" ELSE @]
    /\ UNCHANGED <<server, visible, tracked, asked, told, shown>>

\* shouldNotifyEguiTransition, when the answer comes to a hidden window.
Worth_NotNotified(entry, status) ==  \* mutant: does not ask what was seen
    status \in Notifiable /\ entry.notified # status
Worth(entry, status) ==
    /\ entry.seen # status
    /\ status \in Notifiable
    /\ entry.notified # status
Receive ==
    /\ pc = "asking"
    /\ answer # "none"
    /\ IF answer \in {"failed", "gone"}
       THEN Proceed(IF Evicted(answer) THEN Without(state, asked) ELSE state)
       ELSE IF ~visible /\ Worth(state[asked], answer)
       THEN pc' = "telling" /\ UNCHANGED <<server, visible, tracked, state, todo, asked,
                                           answer, changed, history>>
       ELSE Proceed(With(state, asked, Entry(state[asked], answer)))

\* The notification, which the system may refuse.
Notify ==
    /\ pc = "telling"
    /\ told' = told \cup {<<asked, answer>>}
    /\ pc' = "told"
    /\ UNCHANGED <<server, visible, tracked, state, todo, asked, answer, changed,
                   shown, standing>>
Refused ==
    /\ pc = "telling"
    /\ Proceed(With(state, asked, Entry(state[asked], answer)))
Told ==
    /\ pc = "told"
    /\ Proceed(With(state, asked, [Entry(state[asked], answer) EXCEPT !.notified = answer]))

WriteBack ==
    /\ pc = "loop"
    /\ todo = {}
    /\ tracked' = IF changed THEN state ELSE tracked
    /\ pc' = "idle"
    /\ state' = Nothing
    /\ changed' = FALSE
    /\ UNCHANGED <<server, visible, todo, asked, answer, history>>
-----------------------------------------------------------------------------
Cycle ==
    \/ Begin \/ Break \/ Quit
    \/ \E i \in Invoice : Ask(i)
    \/ Refresh \/ Receive \/ Notify \/ Refused \/ Told \/ WriteBack

Next ==
    \/ ShowOrHide \/ SwitchUser
    \/ \E i \in Invoice : Remember(i) \/ Progress(i)
    \/ Cycle

Spec == Init /\ [][Next]_vars
-----------------------------------------------------------------------------
(* Properties *)

TypeOK ==
    /\ server \in [Invoice -> EguiStatus]
    /\ DOMAIN tracked \subseteq Invoice /\ DOMAIN state \subseteq Invoice
    /\ todo \subseteq DOMAIN state
    /\ pc \in {"idle", "loop", "asking", "telling", "told"}
    /\ answer \in EguiStatus \cup {"none", "failed", "gone"}

\* A notification brings news: a status that was neither notified before nor
\* shown by the invoice's page, unless a cycle has disturbed what is remembered
\* of the invoice, by breaking off after a notification or by running while the
\* page was opened.  (A status never returns here: Following moves forward.)
NewsIsNew ==
    [][\A i \in Invoice : (Notify /\ asked = i /\ standing[i] # "disturbed")
          => <<i, answer>> \notin told \cup shown]_vars

\* An invoice stays tracked once its page was opened, unless that happened while
\* a cycle was running, or the server does not know it any longer.
StaysTracked == \A i \in Invoice : standing[i] = "watched" => i \in DOMAIN tracked
-----------------------------------------------------------------------------
(* The inductive invariant of NewsIsNew and StaysTracked *)

Mark == [seen : EguiStatus, notified : EguiStatus \cup {"none"}]

\* What the cycle will write back of an invoice or, when it has none, what is
\* tracked of it.
Seen(i) == IF i \in DOMAIN state THEN state[i].seen ELSE tracked[i].seen

\* Whoever works with the invoice has been told or shown at most this status.
KnownUpTo(i, st) == \A k \in EguiStatus : <<i, k>> \in told \cup shown => UpTo(k, st)

\* The answer the cycle is working with.
AnswerFits ==
    /\ pc \in {"idle", "loop"} => answer = "none"
    /\ pc = "idle" => DOMAIN state = {} /\ todo = {}
    /\ pc \in {"asking", "telling", "told"} =>
          /\ asked \in todo
          /\ answer \in EguiStatus => UpTo(answer, server[asked])
    /\ pc \in {"telling", "told"} => answer \in EguiStatus

\* As long as no cycle has disturbed what is remembered of an invoice, it has been
\* seen at the last status that was shown or told, and the cycle knows of it.
IsRemembered(i) == standing[i] # "disturbed" =>
    /\ i \in DOMAIN state \cup DOMAIN tracked =>
          /\ UpTo(Seen(i), server[i])
          /\ ~(pc = "told" /\ asked = i) => KnownUpTo(i, Seen(i))
    /\ i \in todo => i \in DOMAIN tracked /\ state[i] = tracked[i]
    /\ pc # "idle" /\ ~changed =>
          /\ i \in DOMAIN state <=> i \in DOMAIN tracked
          /\ i \in DOMAIN state => state[i] = tracked[i]
    /\ standing[i] = "watched" =>
          i \in DOMAIN tracked /\ (pc # "idle" => i \in DOMAIN state)
    /\ pc \in {"asking", "telling", "told"} /\ asked = i /\ answer \in EguiStatus =>
          /\ UpTo(Seen(i), answer)
          /\ pc = "telling" => Seen(i) # answer
          /\ pc = "told" => KnownUpTo(i, answer)

IInv ==
    /\ TypeOK /\ asked \in Invoice /\ changed \in BOOLEAN
    /\ tracked \in [DOMAIN tracked -> Mark] /\ state \in [DOMAIN state -> Mark]
    /\ standing \in [Invoice -> {"unknown", "watched", "disturbed"}]
    /\ AnswerFits
    /\ \A i \in Invoice : KnownUpTo(i, server[i]) /\ IsRemembered(i)
=============================================================================
