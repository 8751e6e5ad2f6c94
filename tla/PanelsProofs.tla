---------------------------- MODULE PanelsProofs ----------------------------
(***************************************************************************)
(* Proofs about Panels: for every panel and form, any rows and any number  *)
(* of requests at one time, nothing stays disabled, a form sends one       *)
(* request at a time and a row is sent twice in two known ways only, a     *)
(* typed text goes to the row it was typed for, and the page follows the   *)
(* services.                                                               *)
(***************************************************************************)
EXTENDS Panels, TLAPS

USE SubjectsAssumption

-----------------------------------------------------------------------------
(***************************************************************************)
(* What the panels have in common: rows and forms exclude each other, and  *)
(* no dialog starts with a text.                                           *)
(***************************************************************************)
Regular(p) ==
    /\ p.keyed => p.form = {}
    /\ ~p.keyed => p.press = {} /\ p.dialog = {}
    /\ p.dialog # {} => ~p.filled

LEMMA PanelFacts == \A p \in Panels : Regular(p)
<1>1. Regular(FulfillmentBoard)
  BY DEF Regular, FulfillmentBoard, Table
<1>2. Regular(SupplierProductsTable)
  BY DEF Regular, SupplierProductsTable, Table
<1>3. Regular(KycQueuePanel)
  BY DEF Regular, KycQueuePanel, Table
<1>4. Regular(ActionCard) /\ Regular(KycForm)
  BY DEF Regular, ActionCard, KycForm, OneForm, Table
<1>5. Regular(ReviewForm) /\ Regular(AddToCart)
  BY DEF Regular, ReviewForm, AddToCart, OneForm, Table
<1>6. Regular(LoginForm) /\ Regular(RegisterForm)
  BY DEF Regular, LoginForm, RegisterForm, OneForm, Table
<1>7. QED
  BY <1>1, <1>2, <1>3, <1>4, <1>5, <1>6 DEF Panels

-----------------------------------------------------------------------------
(***************************************************************************)
(* The inductive invariant, part by part.  SlotInv: what the requests are. *)
(***************************************************************************)
SlotInv ==
    \A s \in Slots : stage[s] # "free" =>
        /\ item[s] \in Items
        /\ step[s] \in Steps(panel)
        /\ panel.keyed => kind[s] # "form"
        /\ ~panel.keyed => kind[s] = "form"

(***************************************************************************)
(* A row with a request is marked, or its mark was taken over or removed;  *)
(* a form with a request is marked, and the request is the only one.       *)
(***************************************************************************)
HoldInv ==
    \A s \in Slots : Awaited(s) =>
        /\ panel.keyed => mark = item[s] \/ item[s] \in passed
        /\ ~panel.keyed => mark = Form /\ \A r \in Slots : Awaited(r) => r = s

(***************************************************************************)
(* Two requests for one row, and a press behind which its dialog is open:  *)
(* the row was enabled again, or it is a dialog that can be sent again.    *)
(***************************************************************************)
TwiceInv ==
    /\ SentOnce
    /\ \A s \in Slots : Awaited(s) /\ kind[s] = "press" /\ modal = item[s] => item[s] \in passed

(***************************************************************************)
(* While no dialog is open, a text is one that a cancelled one left.       *)
(***************************************************************************)
DialogInv ==
    /\ modal # None => panel.dialog # {}
    /\ panel.dialog # {} /\ modal = None /\ text # None => left
    /\ TextIsForItsRow

(***************************************************************************)
(* What the page shows, and what it is about to show, is what the service  *)
(* has, or something is on its way that will correct it.                   *)
(***************************************************************************)
Covered(i) ==
    \/ i \in drift
    \/ wanted
    \/ \E s \in Slots : stage[s] = "granted" /\ item[s] = i

PageInv ==
    panel.refreshes => \A i \in Items :
        /\ read = NoRead => shown[i] = real[i] \/ Covered(i)
        /\ read # NoRead => read[i] = real[i] \/ Covered(i)

IInv ==
    /\ TypeOK
    /\ SlotInv
    /\ HoldInv
    /\ TwiceInv
    /\ MarksHaveRequests
    /\ DialogInv
    /\ PageInv

LEMMA StepFacts ==
  ASSUME NEW p, NEW w \in Steps(p)
  PROVE  w[1] \in Statuses(p) /\ w[2] \in Statuses(p)
<1>1. {w[1], w[2]} \in {{s[1], s[2]} : s \in Steps(p)}
  OBVIOUS
<1>2. QED
  BY <1>1 DEF Statuses

LEMMA StartFacts == ASSUME NEW p PROVE Starts(p) \subseteq Statuses(p)
  BY StepFacts DEF Starts

-----------------------------------------------------------------------------
(***************************************************************************)
(* A request that is sent: by a row, by the dialog, by the form.           *)
(***************************************************************************)
LEMMA SendKeeps ==
  ASSUME IInv, NEW k \in {"press", "dialog", "form"}, NEW i \in Items,
         NEW w \in Steps(panel), Send(k, i, w),
         panel.keyed => k # "form",
         ~panel.keyed => k = "form" /\ mark # Form,
         k = "press" => mark # i /\ modal = None,
         k = "dialog" => modal = i /\ (panel.again \/ mark # i),
         UNCHANGED <<panel, shown, modal, text, refresh, real, drift, left>>
  PROVE  IInv'
<1> USE DEF IInv, refresh
<1>1. PICK s \in Free : /\ kind' = [kind EXCEPT ![s] = k]
                        /\ item' = [item EXCEPT ![s] = i]
                        /\ step' = [step EXCEPT ![s] = w]
                        /\ stage' = [stage EXCEPT ![s] = "sent"]
  BY DEF Send
<1>2. s \in Slots /\ stage[s] = "free"
  BY DEF Free
<1>3. /\ kind'[s] = k /\ item'[s] = i /\ step'[s] = w /\ stage'[s] = "sent"
      /\ \A r \in Slots \ {s} : /\ kind'[r] = kind[r] /\ item'[r] = item[r]
                                /\ step'[r] = step[r] /\ stage'[r] = stage[r]
  BY <1>1, <1>2 DEF TypeOK
<1>4. /\ mark' = Holder(k, i)
      /\ passed' = passed \cup ((Items \cap {mark}) \ {Holder(k, i)})
  BY DEF Send
<1>5. TypeOK'
  <2>1. /\ kind' \in [Slots -> {"press", "dialog", "form"}]
        /\ item' \in [Slots -> Items \cup {None}]
        /\ step' \in [Slots -> Steps(panel) \cup {NoStep}]
        /\ stage' \in [Slots -> {"free", "sent", "granted", "refused", "late"}]
    BY <1>1, <1>2 DEF TypeOK
  <2>2. mark' \in Items \cup {None, Form} /\ passed' \subseteq Items
    BY <1>4 DEF Holder, TypeOK
  <2>3. QED
    BY <2>1, <2>2 DEF TypeOK
<1>6. SlotInv'
  BY <1>3 DEF SlotInv
<1>7. HoldInv'
  <2>1. CASE panel.keyed
    BY <1>3, <1>4, <2>1 DEF HoldInv, Awaited, Holder, SlotInv
  <2>2. CASE ~panel.keyed
    <3>1. \A r \in Slots : ~Awaited(r)
      BY <2>2 DEF HoldInv
    <3>2. \A r \in Slots : Awaited(r)' => r = s
      BY <1>3, <3>1 DEF Awaited
    <3>3. QED
      BY <1>4, <2>2, <3>2 DEF HoldInv, Holder
  <2>3. QED
    BY <2>1, <2>2
<1>8. MarksHaveRequests'
  BY <1>2, <1>3, <1>4 DEF MarksHaveRequests, Awaited
<1>9. TwiceInv'
  <2>1. \A r \in Slots \ {s} : Awaited(r)' <=> Awaited(r)
    BY <1>3 DEF Awaited
  <2>2. passed \subseteq passed'
    BY <1>4
  <2>3. CASE panel.keyed
    <3>1. k # "form" /\ (k = "press" \/ k = "dialog")
      BY <2>3
    <3>2. ASSUME NEW r \in Slots \ {s}, Awaited(r), item[r] = i, i \notin passed
          PROVE  panel.again /\ k = "dialog" /\ kind[r] = "dialog"
      <4>1. mark = i
        BY <2>3, <3>2 DEF HoldInv
      <4>2. k = "dialog" /\ panel.again /\ modal = i
        BY <3>1, <4>1
      <4>3. kind[r] # "press" /\ kind[r] # "form"
        BY <2>3, <3>2, <4>2 DEF TwiceInv, SlotInv, Awaited
      <4>4. QED
        BY <4>2, <4>3 DEF TypeOK
    <3>3. SentOnce'
      <4> SUFFICES ASSUME NEW r \in Slots, NEW q \in Slots, Twice(r, q)',
                          item'[r] \notin passed'
                   PROVE  panel.again /\ kind'[r] = "dialog" /\ kind'[q] = "dialog"
        BY DEF SentOnce
      <4>1. CASE r # s /\ q # s
        BY <1>3, <2>1, <2>2, <4>1 DEF TwiceInv, SentOnce, Twice
      <4>2. CASE r = s /\ q # s
        BY <1>3, <2>1, <2>2, <3>2, <4>2 DEF Twice
      <4>3. CASE q = s /\ r # s
        BY <1>3, <2>1, <2>2, <3>2, <4>3 DEF Twice
      <4>4. QED
        BY <4>1, <4>2, <4>3 DEF Twice
    <3>4. ASSUME NEW r \in Slots, Awaited(r)', kind'[r] = "press", modal = item'[r]
          PROVE  item'[r] \in passed'
      <4>1. r # s
        BY <1>3, <3>4
      <4>2. QED
        BY <1>3, <2>1, <2>2, <3>4, <4>1 DEF TwiceInv
    <3>5. QED
      BY <3>3, <3>4 DEF TwiceInv
  <2>4. CASE ~panel.keyed
    <3>1. \A r, q \in Slots : Awaited(r)' /\ Awaited(q)' => r = q
      BY <1>7, <2>4 DEF HoldInv
    <3>2. \A r \in Slots : Awaited(r)' => kind'[r] = "form"
      BY <1>6, <2>4 DEF SlotInv, Awaited
    <3>3. QED
      BY <3>1, <3>2 DEF TwiceInv, SentOnce, Twice
  <2>5. QED
    BY <2>3, <2>4
<1>10. DialogInv'
  BY DEF DialogInv, TextIsForItsRow
<1>11. PageInv'
  <2>1. \A j \in Items : Covered(j) => Covered(j)'
    BY <1>2, <1>3 DEF Covered
  <2>2. QED
    BY <2>1 DEF PageInv
<1>12. QED
  BY <1>5, <1>6, <1>7, <1>8, <1>9, <1>10, <1>11

LEMMA SendersKeep ==
  ASSUME IInv,
         \/ \E i \in Items, w \in panel.press : Press(i, w)
         \/ SubmitDialog
         \/ SubmitForm
  PROVE  IInv'
<1> USE DEF IInv
<1>1. Regular(panel)
  BY PanelFacts DEF TypeOK
<1>2. CASE \E i \in Items, w \in panel.press : Press(i, w)
  <2>1. PICK i \in Items, w \in panel.press : Press(i, w)
    BY <1>2
  <2>2. panel.keyed
    BY <1>1 DEF Regular
  <2>3. w \in Steps(panel)
    BY DEF Steps
  <2>4. QED
    BY <2>1, <2>2, <2>3, SendKeeps DEF Press
<1>3. CASE SubmitDialog
  <2>1. PICK w \in panel.dialog : Send("dialog", modal, w)
    BY <1>3 DEF SubmitDialog
  <2>2. panel.keyed
    BY <1>1 DEF Regular
  <2>3. w \in Steps(panel) /\ modal \in Items
    BY <1>3 DEF Steps, SubmitDialog, TypeOK
  <2>4. QED
    BY <1>3, <2>1, <2>2, <2>3, SendKeeps DEF SubmitDialog
<1>4. CASE SubmitForm
  <2>1. PICK w \in panel.form : Send("form", text, w)
    BY <1>4 DEF SubmitForm
  <2>2. ~panel.keyed
    BY <1>1 DEF Regular
  <2>3. w \in Steps(panel) /\ text \in Items
    BY <1>4 DEF Steps, SubmitForm, TypeOK
  <2>4. QED
    BY <1>4, <2>1, <2>2, <2>3, SendKeeps DEF SubmitForm
<1>5. QED
  BY <1>2, <1>3, <1>4

(***************************************************************************)
(* What the user does without a request.                                   *)
(***************************************************************************)
LEMMA TypingKeeps ==
  ASSUME IInv,
         \/ \E i \in Items : OpenDialog(i)
         \/ \E i \in Items \cup {None} : Enter(i)
         \/ Type
         \/ CancelDialog
  PROVE  IInv'
<1> USE DEF IInv, OpenDialog, Enter, Type, CancelDialog, refresh, slots, history
<1>1. Regular(panel)
  BY PanelFacts DEF TypeOK
<1>2. TypeOK'
  BY DEF TypeOK
<1>3. SlotInv' /\ HoldInv' /\ MarksHaveRequests'
  BY DEF SlotInv, HoldInv, MarksHaveRequests, Awaited
<1>4. DialogInv'
  <2>1. CASE \E i \in Items : OpenDialog(i)
    BY <2>1 DEF DialogInv, TextIsForItsRow
  <2>2. CASE \E i \in Items \cup {None} : Enter(i)
    BY <1>1, <2>2 DEF DialogInv, TextIsForItsRow, Regular
  <2>3. CASE Type \/ CancelDialog
    BY <2>3 DEF DialogInv, TextIsForItsRow
  <2>4. QED
    BY <2>1, <2>2, <2>3
<1>5. TwiceInv'
  <2>1. SentOnce'
    BY DEF TwiceInv, SentOnce, Twice, Awaited
  <2>2. ASSUME NEW s \in Slots, Awaited(s)', kind'[s] = "press", modal' = item'[s]
        PROVE  item'[s] \in passed'
    <3>1. Awaited(s) /\ kind[s] = "press" /\ item[s] \in Items /\ item'[s] = item[s]
      BY <2>2 DEF Awaited, SlotInv
    <3>2. CASE modal = item[s]
      BY <2>2, <3>1, <3>2 DEF TwiceInv
    <3>3. CASE modal # item[s]
      <4>1. mark # item[s] /\ UNCHANGED passed
        BY <2>2, <3>1, <3>3
      <4>2. panel.keyed
        BY <3>1 DEF SlotInv, Awaited
      <4>3. QED
        BY <3>1, <4>1, <4>2 DEF HoldInv
    <3>4. QED
      BY <3>2, <3>3
  <2>3. QED
    BY <2>1, <2>2 DEF TwiceInv
<1>6. PageInv'
  BY DEF PageInv, Covered
<1>7. QED
  BY <1>2, <1>3, <1>4, <1>5, <1>6

-----------------------------------------------------------------------------
(***************************************************************************)
(* What Ends does to the requests.                                         *)
(***************************************************************************)
LEMMA EndFacts ==
  ASSUME TypeOK, SlotInv, NEW s \in Slots, stage[s] # "free", UNCHANGED panel,
         NEW to \in {"free", "sent", "granted", "refused", "late"}, Ends(s, to)
  PROVE  /\ kind' \in [Slots -> {"press", "dialog", "form"}]
         /\ item' \in [Slots -> Items \cup {None}]
         /\ step' \in [Slots -> Steps(panel) \cup {NoStep}]
         /\ stage' \in [Slots -> {"free", "sent", "granted", "refused", "late"}]
         /\ stage'[s] = to
         /\ to # "free" => kind'[s] = kind[s] /\ item'[s] = item[s]
         /\ \A r \in Slots \ {s} : kind'[r] = kind[r] /\ item'[r] = item[r] /\ stage'[r] = stage[r]
         /\ SlotInv'
<1> USE DEF Ends, TypeOK
<1>1. /\ stage'[s] = to
      /\ to # "free" => kind'[s] = kind[s] /\ item'[s] = item[s] /\ step'[s] = step[s]
      /\ \A r \in Slots \ {s} : /\ kind'[r] = kind[r] /\ item'[r] = item[r]
                                /\ step'[r] = step[r] /\ stage'[r] = stage[r]
  OBVIOUS
<1>2. SlotInv'
  BY <1>1 DEF SlotInv
<1>3. stage' \in [Slots -> {"free", "sent", "granted", "refused", "late"}]
  OBVIOUS
<1>4. /\ kind' \in [Slots -> {"press", "dialog", "form"}]
      /\ item' \in [Slots -> Items \cup {None}]
      /\ step' \in [Slots -> Steps(panel) \cup {NoStep}]
  OBVIOUS
<1>5. QED
  BY <1>1, <1>2, <1>3, <1>4

LEMMA GrantKeeps == ASSUME IInv, NEW s \in Slots, Grant(s) PROVE IInv'
<1> USE DEF IInv, Grant, page, refresh
<1>1. PICK to \in {"free", "granted"} :
        /\ Ends(s, to)
        /\ to = "free" => stage[s] = "late" /\ drift' = drift \cup {item[s]}
        /\ to = "granted" => stage[s] = "sent" /\ drift' = drift
  OBVIOUS
<1>2. /\ kind' \in [Slots -> {"press", "dialog", "form"}]
      /\ item' \in [Slots -> Items \cup {None}]
      /\ step' \in [Slots -> Steps(panel) \cup {NoStep}]
      /\ stage' \in [Slots -> {"free", "sent", "granted", "refused", "late"}]
      /\ stage'[s] = to
      /\ to # "free" => kind'[s] = kind[s] /\ item'[s] = item[s]
      /\ \A r \in Slots \ {s} : kind'[r] = kind[r] /\ item'[r] = item[r] /\ stage'[r] = stage[r]
      /\ SlotInv'
  BY <1>1, EndFacts
<1>3. item[s] \in Items /\ step[s] \in Steps(panel)
  BY DEF SlotInv
<1>4. TypeOK'
  <2>1. real' \in [Items -> Statuses(panel)]
    BY <1>3, StepFacts DEF TypeOK
  <2>2. drift' \subseteq Items
    BY <1>1, <1>3 DEF TypeOK
  <2>3. QED
    BY <1>2, <2>1, <2>2 DEF TypeOK
<1>5. \A r \in Slots : Awaited(r)' <=> Awaited(r)
  BY <1>1, <1>2 DEF Awaited
<1>6. HoldInv'
  BY <1>1, <1>2, <1>5 DEF HoldInv, Awaited
<1>7. MarksHaveRequests' /\ TwiceInv'
  BY <1>1, <1>2, <1>5 DEF MarksHaveRequests, TwiceInv, SentOnce, Twice, Awaited
<1>8. DialogInv'
  BY DEF DialogInv, TextIsForItsRow
<1>9. PageInv'
  <2>1. ASSUME NEW j \in Items, j = item[s] PROVE Covered(j)'
    BY <1>1, <1>2, <2>1 DEF Covered
  <2>2. \A j \in Items : Covered(j) => Covered(j)'
    BY <1>1, <1>2 DEF Covered
  <2>3. \A j \in Items : j # item[s] => real'[j] = real[j]
    BY <1>3 DEF TypeOK
  <2>4. QED
    BY <2>1, <2>2, <2>3 DEF PageInv
<1>10. QED
  BY <1>2, <1>4, <1>6, <1>7, <1>8, <1>9

LEMMA RefuseKeeps == ASSUME IInv, NEW s \in Slots, Refuse(s) PROVE IInv'
<1> USE DEF IInv, Refuse, page, refresh, history
<1>1. PICK to \in {"free", "refused"} :
        /\ Ends(s, to)
        /\ to = "free" => stage[s] = "late"
        /\ to = "refused" => stage[s] = "sent"
  OBVIOUS
<1>2. /\ kind' \in [Slots -> {"press", "dialog", "form"}]
      /\ item' \in [Slots -> Items \cup {None}]
      /\ step' \in [Slots -> Steps(panel) \cup {NoStep}]
      /\ stage' \in [Slots -> {"free", "sent", "granted", "refused", "late"}]
      /\ stage'[s] = to
      /\ to # "free" => kind'[s] = kind[s] /\ item'[s] = item[s]
      /\ \A r \in Slots \ {s} : kind'[r] = kind[r] /\ item'[r] = item[r] /\ stage'[r] = stage[r]
      /\ SlotInv'
  BY <1>1, EndFacts
<1>3. TypeOK'
  BY <1>2 DEF TypeOK
<1>4. \A r \in Slots : Awaited(r)' <=> Awaited(r)
  BY <1>1, <1>2 DEF Awaited
<1>5. HoldInv'
  BY <1>1, <1>2, <1>4 DEF HoldInv, Awaited
<1>6. MarksHaveRequests' /\ TwiceInv'
  BY <1>1, <1>2, <1>4 DEF MarksHaveRequests, TwiceInv, SentOnce, Twice, Awaited
<1>7. DialogInv'
  BY DEF DialogInv, TextIsForItsRow
<1>8. PageInv'
  <2>1. \A j \in Items : Covered(j) => Covered(j)'
    BY <1>1, <1>2 DEF Covered
  <2>2. QED
    BY <2>1 DEF PageInv
<1>9. QED
  BY <1>2, <1>3, <1>5, <1>6, <1>7, <1>8

LEMMA ElsewhereKeeps == ASSUME IInv, NEW i \in Items, Elsewhere(i) PROVE IInv'
<1> USE DEF IInv, Elsewhere, page, refresh, slots
<1>1. PICK w \in panel.other : real' = [real EXCEPT ![i] = w[2]]
  OBVIOUS
<1>2. TypeOK'
  <2>1. w \in Steps(panel)
    BY DEF Steps
  <2>2. QED
    BY <1>1, <2>1, StepFacts DEF TypeOK
<1>3. SlotInv' /\ HoldInv' /\ TwiceInv' /\ MarksHaveRequests' /\ DialogInv'
  BY DEF SlotInv, HoldInv, TwiceInv, SentOnce, Twice, MarksHaveRequests, DialogInv,
     TextIsForItsRow, Awaited
<1>4. PageInv'
  <2>1. \A j \in Items : j # i => real'[j] = real[j]
    BY <1>1 DEF TypeOK
  <2>2. QED
    BY <2>1 DEF PageInv, Covered
<1>5. QED
  BY <1>2, <1>3, <1>4

-----------------------------------------------------------------------------
(***************************************************************************)
(* The answer, or the error: the mark goes, and with it a dialog.          *)
(***************************************************************************)
LEMMA FinallyKeeps ==
  ASSUME IInv, NEW s \in Slots, Awaited(s), NEW cleared \in BOOLEAN, Finally(s, cleared),
         NEW to \in {"free", "late"}, Ends(s, to), UNCHANGED panel
  PROVE  /\ mark' = None /\ passed' \subseteq Items
         /\ modal' \in Items \cup {None} /\ text' \in Items \cup {None} /\ left' \in BOOLEAN
         /\ HoldInv' /\ TwiceInv' /\ MarksHaveRequests' /\ DialogInv'
<1> USE DEF IInv, Finally, Unmark
<1>1. stage[s] # "free"
  BY DEF Awaited
<1>2. /\ stage'[s] = to
      /\ \A r \in Slots \ {s} : kind'[r] = kind[r] /\ item'[r] = item[r] /\ stage'[r] = stage[r]
  BY <1>1, EndFacts
<1>3. /\ mark' = None
      /\ passed' = {i \in Items : /\ i \in passed \cup {mark}
                                  /\ \E r \in Slots \ {s} : Awaited(r) /\ item[r] = i}
  OBVIOUS
<1>4. \A r \in Slots : Awaited(r)' => r # s /\ Awaited(r)
  BY <1>2 DEF Awaited
<1>5. ASSUME NEW r \in Slots, Awaited(r)'
      PROVE  /\ item'[r] = item[r] /\ item[r] \in Items /\ Awaited(r)
             /\ kind'[r] = kind[r]
             /\ item[r] \in passed \cup {mark} => item'[r] \in passed'
  <2>1. r # s /\ Awaited(r)
    BY <1>4, <1>5
  <2>2. item'[r] = item[r] /\ kind'[r] = kind[r] /\ item[r] \in Items
    BY <1>2, <2>1 DEF SlotInv, Awaited
  <2>3. QED
    BY <1>3, <2>1, <2>2
<1>6. HoldInv'
  <2>1. CASE panel.keyed
    BY <1>5, <2>1 DEF HoldInv
  <2>2. CASE ~panel.keyed
    BY <1>4, <2>2 DEF HoldInv
  <2>3. QED
    BY <2>1, <2>2
<1>7. MarksHaveRequests'
  BY <1>3 DEF MarksHaveRequests
<1>8. /\ modal' \in Items \cup {None} /\ text' \in Items \cup {None} /\ left' \in BOOLEAN
      /\ modal' # None => modal' = modal /\ (text' = text \/ text' = None)
      /\ left' <=> left /\ text' # None
      /\ modal' = None => modal = None \/ text' = None
      /\ text' # None => text' = text
  BY DEF TypeOK
<1>9. DialogInv'
  BY <1>8 DEF DialogInv, TextIsForItsRow
<1>10. TwiceInv'
  <2>1. SentOnce'
    BY <1>5 DEF TwiceInv, SentOnce, Twice
  <2>2. ASSUME NEW r \in Slots, Awaited(r)', kind'[r] = "press", modal' = item'[r]
        PROVE  item'[r] \in passed'
    BY <1>5, <1>8, <2>2 DEF TwiceInv
  <2>3. QED
    BY <2>1, <2>2 DEF TwiceInv
<1>11. passed' \subseteq Items
  BY <1>3
<1>12. QED
  BY <1>3, <1>6, <1>7, <1>8, <1>9, <1>10, <1>11

LEMMA AnswersKeep == ASSUME IInv, NEW s \in Slots, Answers(s) PROVE IInv'
<1> USE DEF IInv, Answers, Succeed, Fail, refresh
<1>1. panel.clears \in BOOLEAN
  BY DEF TypeOK, Panels, FulfillmentBoard, SupplierProductsTable, KycQueuePanel, ActionCard,
     KycForm, ReviewForm, AddToCart, LoginForm, RegisterForm, OneForm, Table
<1>2. Awaited(s) /\ stage[s] # "free"
  BY DEF Awaited
<1>3. PICK to \in {"free", "late"}, cleared \in BOOLEAN :
        Ends(s, to) /\ Finally(s, cleared)
  BY <1>1
<1>4. UNCHANGED panel
  OBVIOUS
<1>5. /\ kind' \in [Slots -> {"press", "dialog", "form"}]
      /\ item' \in [Slots -> Items \cup {None}]
      /\ step' \in [Slots -> Steps(panel) \cup {NoStep}]
      /\ stage' \in [Slots -> {"free", "sent", "granted", "refused", "late"}]
      /\ \A r \in Slots \ {s} : item'[r] = item[r] /\ stage'[r] = stage[r]
      /\ SlotInv'
  BY <1>2, <1>3, <1>4, EndFacts
<1>6. /\ mark' = None /\ passed' \subseteq Items
      /\ modal' \in Items \cup {None} /\ text' \in Items \cup {None} /\ left' \in BOOLEAN
      /\ HoldInv' /\ TwiceInv' /\ MarksHaveRequests' /\ DialogInv'
  BY <1>2, <1>3, <1>4, FinallyKeeps
<1>7. panel.refreshes \in BOOLEAN
  BY DEF TypeOK, Panels, FulfillmentBoard, SupplierProductsTable, KycQueuePanel, ActionCard,
     KycForm, ReviewForm, AddToCart, LoginForm, RegisterForm, OneForm, Table
<1>8. item[s] \in Items
  BY <1>2 DEF SlotInv
<1>9. TypeOK'
  BY <1>5, <1>6, <1>7, <1>8 DEF TypeOK
<1>10. PageInv'
  <2>1. ASSUME NEW j \in Items, Covered(j), panel.refreshes PROVE Covered(j)'
    BY <1>5, <2>1 DEF Covered
  <2>2. QED
    BY <2>1 DEF PageInv
<1>11. QED
  BY <1>5, <1>6, <1>9, <1>10

(***************************************************************************)
(* The page is read, shown, and left.                                      *)
(***************************************************************************)
LEMMA ReadKeeps == ASSUME IInv, Read PROVE IInv'
<1> USE DEF IInv, Read, page, slots
<1>1. TypeOK'
  BY DEF TypeOK
<1>2. SlotInv' /\ HoldInv' /\ TwiceInv' /\ MarksHaveRequests' /\ DialogInv'
  BY DEF SlotInv, HoldInv, TwiceInv, SentOnce, Twice, MarksHaveRequests, DialogInv,
     TextIsForItsRow, Awaited
<1>3. PageInv'
  <2>1. ASSUME NEW i \in Items PROVE real # NoRead
    <3>1. DOMAIN real = Items /\ DOMAIN NoRead = {}
      BY DEF TypeOK, NoRead
    <3>2. QED
      BY <3>1
  <2>2. QED
    BY <2>1 DEF PageInv
<1>4. QED
  BY <1>1, <1>2, <1>3

LEMMA ShowKeeps == ASSUME IInv, Show PROVE IInv'
<1> USE DEF IInv, Show, slots, history
<1>1. TypeOK'
  BY DEF TypeOK
<1>2. SlotInv' /\ HoldInv' /\ TwiceInv' /\ MarksHaveRequests' /\ DialogInv'
  BY DEF SlotInv, HoldInv, TwiceInv, SentOnce, Twice, MarksHaveRequests, DialogInv,
     TextIsForItsRow, Awaited
<1>3. PageInv'
  BY DEF PageInv, Covered
<1>4. QED
  BY <1>1, <1>2, <1>3

LEMMA LeaveKeeps == ASSUME IInv, Leave PROVE IInv'
<1> USE DEF IInv, Leave
<1>1. Regular(panel)
  BY PanelFacts DEF TypeOK
<1>2. \A s \in Slots : stage'[s] \in {"free", "late"}
  OBVIOUS
<1>3. TypeOK'
  BY DEF TypeOK
<1>4. SlotInv'
  BY DEF SlotInv
<1>5. HoldInv' /\ TwiceInv' /\ MarksHaveRequests'
  BY <1>2 DEF HoldInv, TwiceInv, SentOnce, Twice, MarksHaveRequests, Awaited
<1>6. DialogInv'
  BY <1>1 DEF DialogInv, TextIsForItsRow, Regular
<1>7. PageInv'
  <2>1. read' = NoRead /\ shown' = real'
    OBVIOUS
  <2>2. QED
    BY <2>1 DEF PageInv
<1>8. QED
  BY <1>3, <1>4, <1>5, <1>6, <1>7

-----------------------------------------------------------------------------
LEMMA NextKeeps == IInv /\ [Next]_vars => IInv'
<1> SUFFICES ASSUME IInv, [Next]_vars PROVE IInv'
  OBVIOUS
<1>1. CASE UNCHANGED vars
  BY <1>1 DEF vars, page, refresh, slots, history, IInv, TypeOK, SlotInv, HoldInv,
     TwiceInv, SentOnce, Twice, MarksHaveRequests, DialogInv, TextIsForItsRow, PageInv, Covered, Awaited
<1>2. QED
  BY <1>1, SendersKeep, TypingKeeps, GrantKeeps, RefuseKeeps, ElsewhereKeeps, AnswersKeep,
     ReadKeeps, ShowKeeps, LeaveKeeps DEF Next

LEMMA InitHolds == Init => IInv
<1> SUFFICES ASSUME Init PROVE IInv
  OBVIOUS
<1>1. Regular(panel)
  BY PanelFacts DEF Init
<1>2. TypeOK
  BY StartFacts DEF Init, TypeOK
<1>3. QED
  BY <1>1, <1>2 DEF Init, IInv, SlotInv, HoldInv, TwiceInv, SentOnce, Twice,
     MarksHaveRequests, DialogInv, TextIsForItsRow, PageInv, Awaited, Regular

(***************************************************************************)
(* The inductive invariant of the panels.                                  *)
(***************************************************************************)
THEOREM Invariant == Spec => []IInv
  BY InitHolds, NextKeeps, PTL DEF Spec

(***************************************************************************)
(* For any rows and any number of requests: a form sends one request at a  *)
(* time.  A row is disabled from the press until its request ends, unless  *)
(* another request takes the mark over or removes it by ending; and two    *)
(* requests for one row run at one time only after that, or as rejections  *)
(* sent twice by the dialog of KycQueuePanel, which is not disabled.       *)
(***************************************************************************)
THEOREM ControlsSound == Spec => []ControlsAreSound
<1>1. IInv => ControlsAreSound
  <2> SUFFICES ASSUME IInv PROVE ControlsAreHeld
    BY DEF IInv, TwiceInv, ControlsAreSound
  <2>1. ASSUME NEW s \in Slots, Awaited(s)
        PROVE  mark = Holder(kind[s], item[s]) \/ Holder(kind[s], item[s]) \in passed
    BY <2>1 DEF IInv, HoldInv, SlotInv, Holder, Awaited
  <2>2. QED
    BY <2>1 DEF IInv, HoldInv, ControlsAreHeld
<1>2. QED
  BY <1>1, Invariant, PTL

(***************************************************************************)
(* And is enabled again when it has ended.                                 *)
(***************************************************************************)
THEOREM MarksEnd == Spec => []MarksHaveRequests
<1>1. IInv => MarksHaveRequests
  BY DEF IInv
<1>2. QED
  BY <1>1, Invariant, PTL

(***************************************************************************)
(* A text goes to the row it was typed for.                                *)
(***************************************************************************)
THEOREM TextKeepsItsRow == Spec => []TextIsForItsRow
<1>1. IInv => TextIsForItsRow
  BY DEF IInv, DialogInv
<1>2. QED
  BY <1>1, Invariant, PTL

(***************************************************************************)
(* The page shows what the service has, or is about to.                    *)
(***************************************************************************)
THEOREM PageFollows == Spec => []PageIsCurrent
<1>1. IInv => PageIsCurrent
  BY DEF IInv, PageInv, Covered, PageIsCurrent
<1>2. QED
  BY <1>1, Invariant, PTL
=============================================================================
