------------------------------- MODULE Panels -------------------------------
(***************************************************************************)
(* The panels and forms of the frontend that send one request at a press,  *)
(* disable something until it ends, and then have the page rendered anew.  *)
(* (frontend/src/components/domain)                                        *)
(*                                                                         *)
(* They are one state machine with different parameters, the records of    *)
(* Panels; a behaviour is about one of them.  A step is the pair of the    *)
(* status its control is offered for and the one it asks for.  Of typed    *)
(* text only its subject counts.  The services are external: they may      *)
(* refuse any request (the gateway refuses those without a body, see       *)
(* Routes), and may act on one whose caller was told that it failed.  A    *)
(* page that is rendered without its rows is one that was left.            *)
(***************************************************************************)
CONSTANTS
    Items,          \* rows of a panel, or what a form can be about: an id, an account
    Slots,          \* bound: requests at one time
    None,           \* no row, no text
    Form            \* the form as a whole

ASSUME SubjectsAssumption == None # Form /\ {None, Form} \cap Items = {}

(***************************************************************************)
(*   keyed      busy holds the id of a row; the other rows stay enabled    *)
(*   press      steps a row offers                                         *)
(*   dialog     steps a row opens a dialog for, which asks for a text      *)
(*   form       steps of the form                                          *)
(*   other      steps the panel does not offer                             *)
(*   again      the dialog can be sent again while its request runs        *)
(*   closes     kinds of requests whose end closes and empties the dialog  *)
(*   filled     the form is about something from the start                 *)
(*   fixed      and cannot be emptied                                      *)
(*   clears     success empties the form                                   *)
(*   refreshes  success has the page rendered anew; others leave it        *)
(*   checked    the service grants a step only from its status             *)
(***************************************************************************)
Table == [keyed |-> TRUE, press |-> {}, dialog |-> {}, form |-> {}, other |-> {},
          again |-> FALSE, closes |-> {}, filled |-> FALSE, fixed |-> FALSE,
          clears |-> FALSE, refreshes |-> TRUE, checked |-> FALSE]

OneForm == [Table EXCEPT !.keyed = FALSE]

FulfillmentBoard == [Table EXCEPT
    !.press = {<<"CONFIRMED", "PACKED">>, <<"SHIPPED", "DELIVERED">>},
    !.dialog = {<<"PACKED", "SHIPPED">>},
    !.other = {<<"CONFIRMED", "CANCELLED">>},
    !.closes = {"press", "dialog"},
    !.checked = TRUE]

\* The toggle asks whether the product is PUBLISHED; the other statuses are one here.
SupplierProductsTable == [Table EXCEPT
    !.press = {<<"UNPUBLISHED", "PUBLISHED">>, <<"PUBLISHED", "UNPUBLISHED">>}]

\* A first submission adds a row; a second one, after a rejection, is left out.
KycQueuePanel == [Table EXCEPT
    !.press = {<<"UNDER_REVIEW", "VERIFIED">>},
    !.dialog = {<<"UNDER_REVIEW", "REJECTED">>},
    !.other = {<<"PENDING_VERIFICATION", "UNDER_REVIEW">>},
    !.again = TRUE,
    !.closes = {"dialog"}]

ActionCard == [OneForm EXCEPT !.form = {<<"ACTIVE", "SUSPENDED">>}, !.clears = TRUE]

KycForm == [OneForm EXCEPT !.form = {<<"REJECTED", "UNDER_REVIEW">>}]

ReviewForm == [OneForm EXCEPT !.form = {<<"DELIVERED", "REVIEWED">>},
    !.filled = TRUE,
    !.fixed = TRUE]

AddToCart == [OneForm EXCEPT
    !.form = {<<"OFFERED", "IN_CART">>}, !.filled = TRUE, !.refreshes = FALSE]

LoginForm == [OneForm EXCEPT
    !.form = {<<"SIGNED_OUT", "SIGNED_IN">>}, !.refreshes = FALSE]

RegisterForm == [OneForm EXCEPT
    !.form = {<<"UNKNOWN", "PENDING_VERIFICATION">>}, !.refreshes = FALSE, !.checked = TRUE]

Panels == {FulfillmentBoard, SupplierProductsTable, KycQueuePanel, ActionCard, KycForm,
           ReviewForm, AddToCart, LoginForm, RegisterForm}

VARIABLES
    panel,          \* the panel this is about
    shown,          \* the statuses the page was rendered with
    mark,           \* busy: a row, the form, or None
    modal,          \* the row the dialog is open for
    text,           \* what the text in the dialog or the form is about
    wanted,         \* a router.refresh waits for its turn
    read,           \* the statuses a refresh read that is under way
    kind, item, step, stage,  \* the request in slot s, and where it is
    real,           \* external: the statuses at the service
    drift,          \* history: rows that changed and nothing tells the page
    passed,         \* history: rows whose mark another request took over or
                    \* removed, while a request for them is awaited
    left            \* history: the text is one a cancelled dialog left behind

page == <<panel, shown, mark, modal, text>>
refresh == <<wanted, read>>
slots == <<kind, item, step, stage>>
history == <<drift, passed, left>>
vars == <<page, refresh, slots, real, history>>

Steps(p) == p.press \cup p.dialog \cup p.form \cup p.other
Statuses(p) == UNION {{s[1], s[2]} : s \in Steps(p)}
Starts(p) == {s[1] : s \in Steps(p)}
NoRead == << >>
NoStep == <<"-", "-">>
Free == {s \in Slots : stage[s] = "free"}
Awaited(s) == stage[s] \in {"sent", "granted", "refused"}

Init ==
    /\ panel \in Panels
    /\ real \in [Items -> Starts(panel)]
    /\ shown = real
    /\ mark = None
    /\ modal = None
    /\ text \in IF panel.filled THEN Items ELSE {None}
    /\ wanted = FALSE
    /\ read = NoRead
    /\ kind = [s \in Slots |-> "press"]
    /\ item = [s \in Slots |-> None]
    /\ step = [s \in Slots |-> NoStep]
    /\ stage = [s \in Slots |-> "free"]
    /\ drift = {}
    /\ passed = {}
    /\ left = FALSE

(***************************************************************************)
(* What a request holds disabled.  The mark is one value: a request for    *)
(* another row takes it over, and the end of any request removes it.       *)
(***************************************************************************)
Holder(k, i) == IF k = "form" THEN Form ELSE i

Send(k, i, w) ==
    /\ \E s \in Free :
        /\ kind' = [kind EXCEPT ![s] = k]
        /\ item' = [item EXCEPT ![s] = i]
        /\ step' = [step EXCEPT ![s] = w]
        /\ stage' = [stage EXCEPT ![s] = "sent"]
    /\ mark' = Holder(k, i)
    /\ passed' = passed \cup ((Items \cap {mark}) \ {Holder(k, i)})

Ends(s, to) ==
    /\ stage' = [stage EXCEPT ![s] = to]
    /\ IF to = "free"
       THEN /\ kind' = [kind EXCEPT ![s] = "press"]
            /\ item' = [item EXCEPT ![s] = None]
            /\ step' = [step EXCEPT ![s] = NoStep]
       ELSE UNCHANGED <<kind, item, step>>

(***************************************************************************)
(* A row's button.                                                         *)
(***************************************************************************)
\* Broken variant of Press: the button is not disabled.
PressAgain(i, w) ==
    /\ w \in panel.press
    /\ shown[i] = w[1]
    /\ modal = None
    /\ Send("press", i, w)
    /\ UNCHANGED <<panel, shown, modal, text, refresh, real, drift, left>>

Press(i, w) ==
    /\ w \in panel.press
    /\ shown[i] = w[1]
    /\ modal = None
    /\ mark # i
    /\ Send("press", i, w)
    /\ UNCHANGED <<panel, shown, modal, text, refresh, real, drift, left>>

(***************************************************************************)
(* The dialog, in front of everything else: opened for a row, typed into,  *)
(* cancelled with what was typed, sent when there is a text.               *)
(***************************************************************************)
OpenDialog(i) ==
    /\ \E w \in panel.dialog : shown[i] = w[1]
    /\ modal = None
    /\ mark # i
    /\ modal' = i
    /\ UNCHANGED <<panel, shown, mark, text, refresh, slots, real, history>>

Type ==
    /\ modal # None
    /\ text' \in {None, modal}
    /\ left' = FALSE
    /\ UNCHANGED <<panel, shown, mark, modal, refresh, slots, real, drift, passed>>

CancelDialog ==
    /\ modal # None
    /\ modal' = None
    /\ left' = (text # None)
    /\ UNCHANGED <<panel, shown, mark, text, refresh, slots, real, drift, passed>>

SubmitDialog ==
    /\ modal # None
    /\ text # None
    /\ panel.again \/ mark # modal
    /\ \E w \in panel.dialog : Send("dialog", modal, w)
    /\ UNCHANGED <<panel, shown, modal, text, refresh, real, drift, left>>

(***************************************************************************)
(* The form: filled in, also while its request runs, and sent, by the demo *)
(* buttons of LoginForm in one press.                                      *)
(***************************************************************************)
Enter(i) ==
    /\ panel.form # {}
    /\ ~panel.fixed
    /\ text' = i
    /\ UNCHANGED <<panel, shown, mark, modal, refresh, slots, real, history>>

\* Broken variant of SubmitForm: its button is not disabled.
SubmitFormAgain ==
    /\ \E w \in panel.form : text # None /\ Send("form", text, w)
    /\ UNCHANGED <<panel, shown, modal, text, refresh, real, drift, left>>

SubmitForm ==
    /\ mark # Form
    /\ text # None
    /\ \E w \in panel.form : Send("form", text, w)
    /\ UNCHANGED <<panel, shown, modal, text, refresh, real, drift, left>>

(***************************************************************************)
(* External: the service grants a request or refuses it, for its caller or *)
(* when nobody waits for it any more; others change a row as well.         *)
(***************************************************************************)
Grant(s) ==
    /\ stage[s] \in {"sent", "late"}
    /\ panel.checked => real[item[s]] = step[s][1]
    /\ real' = [real EXCEPT ![item[s]] = step[s][2]]
    /\ IF stage[s] = "late"
       THEN Ends(s, "free") /\ drift' = drift \cup {item[s]}
       ELSE Ends(s, "granted") /\ UNCHANGED drift
    /\ UNCHANGED <<page, refresh, passed, left>>

Refuse(s) ==
    /\ stage[s] \in {"sent", "late"}
    /\ Ends(s, IF stage[s] = "late" THEN "free" ELSE "refused")
    /\ UNCHANGED <<page, refresh, real, history>>

Elsewhere(i) ==
    /\ \E w \in panel.other : real[i] = w[1] /\ real' = [real EXCEPT ![i] = w[2]]
    /\ drift' = drift \cup {i}
    /\ UNCHANGED <<page, refresh, slots, passed, left>>

(***************************************************************************)
(* finally: the mark goes, whoever set it, and for some requests the       *)
(* dialog with its text, whatever row it is open for.                      *)
(***************************************************************************)
Unmark(s) ==
    /\ mark' = None
    /\ passed' = {i \in Items :
                    /\ i \in passed \cup {mark}
                    /\ \E r \in Slots \ {s} : Awaited(r) /\ item[r] = i}

\* Broken variant of Finally: the dialog is closed with its text in it.
FinallyKeepsText(s, cleared) ==
    /\ Unmark(s)
    /\ modal' = IF kind[s] \in panel.closes THEN None ELSE modal
    /\ text' = IF cleared THEN None ELSE text
    /\ left' = (left /\ text' # None)

Finally(s, cleared) ==
    /\ Unmark(s)
    /\ IF kind[s] \in panel.closes
       THEN modal' = None /\ text' = None
       ELSE modal' = modal /\ text' = IF cleared THEN None ELSE text
    /\ left' = (left /\ text' # None)

\* Broken variant of Succeed: the page is not rendered anew.
SucceedQuietly(s) ==
    /\ stage[s] = "granted"
    /\ Finally(s, panel.clears)
    /\ Ends(s, "free")
    /\ UNCHANGED <<panel, shown, refresh, real, drift>>

(***************************************************************************)
(* The answer arrives, or does not: an error, behind which the request may *)
(* have been granted or may still be.                                      *)
(***************************************************************************)
Succeed(s) ==
    /\ stage[s] = "granted"
    /\ Finally(s, panel.clears)
    /\ Ends(s, "free")
    /\ wanted' = (wanted \/ panel.refreshes)
    /\ UNCHANGED <<panel, shown, read, real, drift>>

\* Broken variant of Fail: no finally, the reset stands behind the await.
FailHeld(s) ==
    /\ Awaited(s)
    /\ drift' = IF stage[s] = "granted" THEN drift \cup {item[s]} ELSE drift
    /\ Ends(s, IF stage[s] = "sent" THEN "late" ELSE "free")
    /\ UNCHANGED <<page, refresh, real, passed, left>>

Fail(s) ==
    /\ Awaited(s)
    /\ Finally(s, FALSE)
    /\ drift' = IF stage[s] = "granted" THEN drift \cup {item[s]} ELSE drift
    /\ Ends(s, IF stage[s] = "sent" THEN "late" ELSE "free")
    /\ UNCHANGED <<panel, shown, refresh, real>>

(***************************************************************************)
(* router.refresh: one after the other, the rows are read and then shown.  *)
(***************************************************************************)
Read ==
    /\ wanted
    /\ read = NoRead
    /\ wanted' = FALSE
    /\ read' = real
    /\ drift' = {}
    /\ UNCHANGED <<page, slots, real, passed, left>>

Show ==
    /\ read # NoRead
    /\ shown' = read
    /\ read' = NoRead
    /\ UNCHANGED <<panel, mark, modal, text, wanted, slots, real, history>>

(***************************************************************************)
(* The page is left, after a login, a registration or an addition to the   *)
(* cart by itself, and opened again: rendered and initialised anew, while  *)
(* the requests of before may still be executed.                           *)
(***************************************************************************)
Leave ==
    /\ shown' = real
    /\ mark' = None
    /\ modal' = None
    /\ text' \in IF panel.filled THEN Items ELSE {None}
    /\ wanted' = FALSE
    /\ read' = NoRead
    /\ LET going == {s \in Slots : stage[s] \in {"sent", "late"}} IN
        /\ stage' = [s \in Slots |-> IF s \in going THEN "late" ELSE "free"]
        /\ kind' = [s \in Slots |-> IF s \in going THEN kind[s] ELSE "press"]
        /\ item' = [s \in Slots |-> IF s \in going THEN item[s] ELSE None]
        /\ step' = [s \in Slots |-> IF s \in going THEN step[s] ELSE NoStep]
    /\ drift' = {}
    /\ passed' = {}
    /\ left' = FALSE
    /\ UNCHANGED <<panel, real>>

Answers(s) == Succeed(s) \/ Fail(s)

Next ==
    \/ \E i \in Items : OpenDialog(i) \/ Elsewhere(i) \/ \E w \in panel.press : Press(i, w)
    \/ Type \/ CancelDialog \/ SubmitDialog \/ SubmitForm
    \/ \E i \in Items \cup {None} : Enter(i)
    \/ \E s \in Slots : Grant(s) \/ Refuse(s) \/ Answers(s)
    \/ Read \/ Show \/ Leave

Spec == Init /\ [][Next]_vars

-----------------------------------------------------------------------------

TypeOK ==
    /\ panel \in Panels
    /\ real \in [Items -> Statuses(panel)]
    /\ shown \in [Items -> Statuses(panel)]
    /\ mark \in Items \cup {None, Form}
    /\ modal \in Items \cup {None}
    /\ text \in Items \cup {None}
    /\ wanted \in BOOLEAN
    /\ read \in [Items -> Statuses(panel)] \cup {NoRead}
    /\ kind \in [Slots -> {"press", "dialog", "form"}]
    /\ item \in [Slots -> Items \cup {None}]
    /\ step \in [Slots -> Steps(panel) \cup {NoStep}]
    /\ stage \in [Slots -> {"free", "sent", "granted", "refused", "late"}]
    /\ drift \subseteq Items
    /\ passed \subseteq Items
    /\ left \in BOOLEAN

(***************************************************************************)
(* What a request runs for is disabled until it ends: always in a form,    *)
(* which therefore runs one request at a time, and on a row as long as no  *)
(* request for another row is sent and no other request ends meanwhile,    *)
(* either of which enables the row again.                                  *)
(***************************************************************************)
ControlsAreHeld ==
    /\ \A s \in Slots : Awaited(s) => \/ mark = Holder(kind[s], item[s])
                                      \/ Holder(kind[s], item[s]) \in passed
    /\ ~panel.keyed => \A s, r \in Slots : Awaited(s) /\ Awaited(r) => s = r

(***************************************************************************)
(* A row is not sent twice at one time but in two ways: another request    *)
(* enabled it again, or its dialog is the one of KycQueuePanel, whose      *)
(* button to reject is disabled only without a reason.                     *)
(***************************************************************************)
Twice(s, r) == s # r /\ Awaited(s) /\ Awaited(r) /\ item[s] = item[r]

SentOnce ==
    \A s, r \in Slots : Twice(s, r) =>
        \/ item[s] \in passed
        \/ panel.again /\ kind[s] = "dialog" /\ kind[r] = "dialog"

(***************************************************************************)
(* The values are those of the code; a control is held while its request   *)
(* runs, and two presses send a request twice only in the two ways above.  *)
(***************************************************************************)
ControlsAreSound ==
    /\ TypeOK
    /\ ControlsAreHeld
    /\ SentOnce

(***************************************************************************)
(* Not so: a dialog sends its request once (PanelsTwice.cfg).              *)
(***************************************************************************)
DialogIsSentOnce == \A s, r \in Slots : Twice(s, r) => item[s] \in passed

(***************************************************************************)
(* A tracking reference, or a reason to reject, is sent for the row it was *)
(* typed for, also when the end of another request closes the dialog, but  *)
(* for the text that a cancelled dialog leaves to the next one.            *)
(***************************************************************************)
TextIsForItsRow == modal # None /\ text # None => text = modal \/ left

(***************************************************************************)
(* "Lists pending submissions", "groups sub-orders by status" (the panels' *)
(* comments): the page shows the statuses of the service, or is about to,  *)
(* whichever order refreshes and requests end in, but for changes made     *)
(* elsewhere or behind an answer that was lost.                            *)
(***************************************************************************)
PageIsCurrent ==
    panel.refreshes => \A i \in Items :
        \/ shown[i] = real[i]
        \/ i \in drift
        \/ wanted
        \/ read # NoRead /\ read[i] = real[i]
        \/ \E s \in Slots : stage[s] = "granted" /\ item[s] = i

(***************************************************************************)
(* Nothing stays disabled: a mark is one of a request that still runs, so  *)
(* it goes with the last answer, whichever order the answers come in.      *)
(***************************************************************************)
MarksHaveRequests ==
    mark # None => \E s \in Slots : Awaited(s) /\ mark = Holder(kind[s], item[s])
=============================================================================
