----------------------------- MODULE ImportProofs -----------------------------
(***************************************************************************)
(* Theorems of ImportWizard, for any number of employees, fields, types    *)
(* and overlapping requests, through failures and restarts.                *)
(*                                                                         *)
(* The argument is about one request at a time: Sound says what a request  *)
(* in flight may rely on, given the flags that later commits have raised   *)
(* on it.  Every request is sound when it is loaded, and a commit of       *)
(* another raises just the flags that keep it sound.                       *)
(***************************************************************************)
EXTENDS ImportWizard, TLAPS

(* Which operation can be where, and what it carries. *)
Shaped(r) ==
  /\ (r.at = "idle") <=> (r.op = "none")
  /\ r.at = "idle" => r = Idle
  /\ r.op \in {"create", "update", "delete"} => r.at = "commit" /\ r.key \in Keys
  /\ r.op = "create" => r.shape # None
  /\ r.op = "update" => r.shape # None /\ r.from # None
  /\ r.op = "delete" => r.shape = None
  /\ r.op = "save" => r.at = "commit"
  /\ r.op = "wizard" <=> r.at \in {"classify", "apply", "finish"}
  /\ r.at = "classify" => r.key \in Keys /\ r.from # None
  /\ r.at \in {"classify", "apply"} => r.touched = {r.key}
  /\ \A e \in r.fresh : r.plan[e] # None
  /\ \A e \in r.unmerged : r.plan[e] # None /\ e \notin r.fresh

(* Only a request about to write bags has a plan. *)
Planful(r) ==
  \A e \in Emps : r.plan[e] # None =>
    r.at \in {"commit", "apply"} /\ r.op \in {"save", "wizard"}

(* The bag that r is going to store for e when the definitions, places and *)
(* bags are f, p and b: e was there to be merged into, the bag is complete, *)
(* and what it does not change is as the employee has it.                  *)
BagSound(r, e, f, p, b) ==
  /\ e \notin r.fresh => p[e] # "absent"
  /\ ~r.stale /\ e \notin r.shifted => Complete(f, r.plan[e])
  /\ e \notin r.raced =>
       \A k \in Keys :
         /\ k \notin r.touched => r.plan[e][k] = b[e][k]
         /\ ~r.stale /\ r.plan[e][k] # None /\ f[k] # None
              /\ r.plan[e][k].type # f[k].type
            => b[e][k] # None /\ b[e][k].type # f[k].type

(* The values that r is going to merge into the bag of e: they are of      *)
(* their fields' types, and complete the bag they were checked with.       *)
RowSound(r, e, f, p, b) ==
  /\ p[e] # "absent"
  /\ \A k \in Keys : r.plan[e][k] # None => k \in r.touched
  /\ ~r.stale =>
       \A k \in Keys : r.plan[e][k] # None => f[k] # None /\ r.plan[e][k].type = f[k].type
  /\ ~r.stale /\ e \notin r.raced => Complete(f, Overlay(b[e], r.plan[e]))

PlanSound(r, e, f, p, b) ==
  IF e \in r.unmerged THEN RowSound(r, e, f, p, b) ELSE BagSound(r, e, f, p, b)

(* A change of type has seen that nobody on the roster has a value. *)
RetypeSound(r, p, b) ==
  r.op = "update" /\ r.shape.type # r.from.type =>
    \A e \in Emps : p[e] = "roster" /\ e \notin r.raced => b[e][r.key] = None

Sound(r, f, p, b) ==
  /\ Shaped(r) /\ Planful(r)
  /\ \A e \in Emps : r.plan[e] # None => PlanSound(r, e, f, p, b)
  /\ RetypeSound(r, p, b)

(* As long as nothing disturbed the batch, at most one request commits it, *)
(* and what it has done shows where it is.                                 *)
OneCommit ==
  /\ Committing # {} => status # "none"
  /\ \A w \in Workers : saving[w] # None => status # "none"
  /\ imported # "unsure" =>
       /\ imported # "again"
       /\ \A v, w \in Committing : v = w
       /\ imported = "never" =>
            status # "committed" /\ \A w \in Committing : req[w].at # "finish"
       /\ imported = "once" =>
            /\ \A w \in Committing : req[w].at = "finish"
            /\ (status = "committed") <=> (Committing = {})

IInv == TypeOK /\ (\A w \in Workers : Sound(req[w], field, place, bag)) /\ OneCommit

-----------------------------------------------------------------------------
(* Requests. *)

LEMMA IdleSound ==
  /\ Idle \in Request /\ Idle.at = "idle" /\ Idle.op = "none"
  /\ Idle.plan = NoPlan /\ Idle.fresh = {} /\ Idle.touched = {} /\ ~Idle.stale
  /\ Idle.unmerged = {} /\ Idle.shifted = {}
  /\ Idle.raced = {} /\ Idle.key = None /\ Idle.from = None /\ Idle.shape = None
  /\ \A f, p, b : Sound(Idle, f, p, b)
<1>1. /\ Idle.at = "idle" /\ Idle.op = "none"
      /\ Idle.plan = NoPlan /\ Idle.fresh = {} /\ Idle.touched = {} /\ ~Idle.stale
      /\ Idle.unmerged = {} /\ Idle.shifted = {}
      /\ Idle.raced = {} /\ Idle.key = None /\ Idle.from = None /\ Idle.shape = None
  BY DEF Idle
<1>2. Idle \in Request
  BY DEF Idle, Request, Places, Operations, NoPlan
<1>3. \A e \in Emps : NoPlan[e] = None
  BY DEF NoPlan
<1>4. ASSUME NEW f, NEW p, NEW b PROVE Sound(Idle, f, p, b)
  BY <1>1, <1>3 DEF Sound, Shaped, Planful, RetypeSound
<1> QED
  BY <1>1, <1>2, <1>4

LEMMA DisturbFacts ==
  ASSUME NEW r \in Request, NEW g \in BOOLEAN, NEW E \in SUBSET Emps
  PROVE  LET d == Disturb(r, g, E)
         IN /\ d \in Request
            /\ d.at = r.at /\ d.op = r.op /\ d.key = r.key /\ d.from = r.from
            /\ d.shape = r.shape /\ d.plan = r.plan /\ d.fresh = r.fresh
            /\ d.touched = r.touched /\ d.unmerged = r.unmerged
            /\ d.shifted = r.shifted
            /\ r.stale => d.stale
            /\ g /\ r.op \in {"save", "wizard"} /\ r.at \in {"commit", "apply"} => d.stale
            /\ r.raced \subseteq d.raced
            /\ r.at \in {"commit", "apply"} /\ r.op \in {"update", "save", "wizard"}
                 => E \subseteq d.raced
            /\ r.at = "idle" => d = r
BY DEF Disturb, Request, Places, Operations

(* What a commit of another does to a request: it changes definitions only *)
(* if g, bags and places only of E, and removes no employee.               *)
LEMMA DisturbSound ==
  ASSUME NEW r \in Request, NEW g \in BOOLEAN, NEW E \in SUBSET Emps,
         NEW f, NEW p, NEW b, NEW f2, NEW p2, NEW b2,
         Sound(r, f, p, b),
         ~g => f2 = f,
         \A e \in Emps \ E : p2[e] = p[e] /\ b2[e] = b[e],
         \A e \in Emps : p[e] # "absent" => p2[e] # "absent"
  PROVE  Sound(Disturb(r, g, E), f2, p2, b2)
<1> DEFINE d == Disturb(r, g, E)
<1>1. /\ d.at = r.at /\ d.op = r.op /\ d.key = r.key /\ d.from = r.from
      /\ d.shape = r.shape /\ d.plan = r.plan /\ d.fresh = r.fresh
      /\ d.touched = r.touched /\ d.unmerged = r.unmerged /\ d.shifted = r.shifted
      /\ r.stale => d.stale
      /\ g /\ r.op \in {"save", "wizard"} /\ r.at \in {"commit", "apply"} => d.stale
      /\ r.raced \subseteq d.raced
      /\ r.at \in {"commit", "apply"} /\ r.op \in {"update", "save", "wizard"}
           => E \subseteq d.raced
      /\ r.at = "idle" => d = r
  BY DisturbFacts
<1>2. Shaped(d)
  BY <1>1 DEF Sound, Shaped
<1>3. RetypeSound(d, p2, b2)
  BY <1>1 DEF Sound, Shaped, RetypeSound
<1>4. ASSUME NEW e \in Emps, d.plan[e] # None PROVE PlanSound(d, e, f2, p2, b2)
  <2>1. r.at \in {"commit", "apply"} /\ r.op \in {"save", "wizard"}
    BY <1>1, <1>4 DEF Sound, Planful
  <2>2. PlanSound(r, e, f, p, b)
    BY <1>1, <1>4 DEF Sound
  <2>3. ~d.stale => ~r.stale /\ f2 = f
    BY <1>1, <2>1
  <2>4. e \notin d.raced => e \notin r.raced /\ b2[e] = b[e]
    BY <1>1, <2>1
  <2> QED
    BY <1>1, <2>2, <2>3, <2>4 DEF PlanSound, BagSound, RowSound
<1>5. Planful(d)
  BY <1>1 DEF Sound, Planful
<1> QED
  BY <1>2, <1>3, <1>4, <1>5 DEF Sound

-----------------------------------------------------------------------------
(* Bags. *)

Table == [Keys -> Definition \cup {None}]
Input == [Keys -> Raws \cup {None}]

(* The values of bag new are of their field's type, or were in old. *)
Typed(f, new, old) ==
  \A k \in Keys : new[k] # None /\ f[k] # None /\ new[k].type # f[k].type
                    => new[k] = old[k]

LEMMA CoerceFacts ==
  ASSUME NEW f \in Table, NEW k \in Keys, NEW raw \in Raws \cup {None}
  PROVE  LET v == Coerce(f, k, raw)
         IN /\ v \in Value \cup {None}
            /\ v # None => raw # None /\ f[k] # None /\ v.type = f[k].type
<1>1. CASE f[k] # None /\ raw \in Parses[f[k].type]
  <2>1. f[k].type \in Types
    BY <1>1 DEF Table, Definition
  <2>2. raw \in Raws
    BY <1>1, <2>1, ParsesAssumption
  <2>3. Coerce(f, k, raw) = [type |-> f[k].type, raw |-> raw]
    BY <1>1 DEF Coerce
  <2> QED
    BY <1>1, <2>1, <2>2, <2>3, NoneAssumption DEF Value
<1>2. CASE ~(f[k] # None /\ raw \in Parses[f[k].type])
  BY <1>2 DEF Coerce
<1> QED
  BY <1>1, <1>2

LEMMA BagFacts ==
  /\ EmptyBag \in Bag /\ EmptyBag \in Input
  /\ \A k \in Keys : EmptyBag[k] = None
BY DEF EmptyBag, Bag, Input

LEMMA ResolvedFacts ==
  ASSUME NEW f \in Table, NEW input \in Input
  PROVE  LET v == Resolved(f, input)
         IN /\ v \in Bag
            /\ \A k \in Keys : v[k] # None =>
                 input[k] # None /\ f[k] # None /\ v[k].type = f[k].type
<1> DEFINE v == Resolved(f, input)
<1>1. ASSUME NEW k \in Keys
      PROVE  /\ v[k] \in Value \cup {None}
             /\ v[k] # None => input[k] # None /\ f[k] # None /\ v[k].type = f[k].type
  <2>1. input[k] \in Raws \cup {None}
    BY DEF Input
  <2>2. v[k] = IF k \in Live(f) THEN Coerce(f, k, input[k]) ELSE None
    BY DEF Resolved
  <2> QED
    BY <2>1, <2>2, CoerceFacts
<1>2. v \in Bag
  <2>1. v = [k \in Keys |-> v[k]]
    BY DEF Resolved
  <2> QED
    BY <1>1, <2>1 DEF Bag
<1> QED
  BY <1>1, <1>2

LEMMA OverlayFacts ==
  ASSUME NEW old \in Bag, NEW new \in Bag
  PROVE  /\ Overlay(old, new) \in Bag
         /\ \A k \in Keys : Overlay(old, new)[k] = IF new[k] # None THEN new[k] ELSE old[k]
BY DEF Overlay, Bag

LEMMA FormBagFacts ==
  ASSUME NEW f \in Table, NEW old \in Bag, NEW input \in Input
  PROVE  LET v == FormBag(f, old, input)
         IN /\ v \in Bag
            /\ \A k \in Keys : k \notin Live(f) => v[k] = old[k]
            /\ Typed(f, v, old)
<1> DEFINE v == FormBag(f, old, input)
<1>1. ASSUME NEW k \in Keys
      PROVE  /\ v[k] \in Value \cup {None}
             /\ k \notin Live(f) => v[k] = old[k]
             /\ k \in Live(f) /\ v[k] # None => v[k].type = f[k].type
  <2>1. input[k] \in Raws \cup {None} /\ old[k] \in Value \cup {None}
    BY DEF Input, Bag
  <2>2. v[k] = IF k \in Live(f) THEN Coerce(f, k, input[k]) ELSE old[k]
    BY DEF FormBag
  <2> QED
    BY <2>1, <2>2, CoerceFacts
<1>2. v \in Bag
  <2>1. v = [k \in Keys |-> v[k]]
    BY DEF FormBag
  <2> QED
    BY <1>1, <2>1 DEF Bag
<1>3. Typed(f, v, old)
  BY <1>1 DEF Typed
<1> QED
  BY <1>1, <1>2, <1>3

(* What overlays old with values of the right types. *)
LEMMA OverlayTyped ==
  ASSUME NEW f \in Table, NEW old \in Bag, NEW new \in Bag,
         \A k \in Keys : new[k] # None => f[k] # None /\ new[k].type = f[k].type
  PROVE  Typed(f, Overlay(old, new), old)
BY OverlayFacts DEF Typed

LEMMA OverlayEmpty ==
  ASSUME NEW new \in Bag
  PROVE  Overlay(EmptyBag, new) = new
BY DEF Overlay, EmptyBag, Bag

-----------------------------------------------------------------------------
(* Loading.  A plan made from the present state is sound. *)

Sane ==
  /\ FieldsTypeOK
  /\ \A w \in Workers : Sound(req[w], field, place, bag)

(* Another request of worker w, and nothing else. *)
LEMMA Load ==
  ASSUME Sane, NEW w \in Workers, NEW x \in Request, Sound(x, field, place, bag),
         req' = [req EXCEPT ![w] = x], UNCHANGED <<field, place, bag>>
  PROVE  Sane'
<1>1. \A v \in Workers : req'[v] = IF v = w THEN x ELSE req[v]
  BY DEF Sane, FieldsTypeOK
<1>2. req' \in [Workers -> Request]
  BY DEF Sane, FieldsTypeOK
<1>3. FieldsTypeOK'
  BY <1>2 DEF Sane, FieldsTypeOK
<1>4. \A v \in Workers : Sound(req'[v], field', place', bag')
  BY <1>1 DEF Sane
<1> QED
  BY <1>3, <1>4 DEF Sane

LEMMA EndLoad ==
  ASSUME Sane, NEW w \in Workers, End(w), UNCHANGED <<field, place, bag>>
  PROVE  Sane'
BY Load, IdleSound DEF End

(* A new bag for e that a save may carry. *)
Fits(new, e, fresh, touched) ==
  /\ new \in Bag
  /\ e \notin fresh => e \in Present
  /\ Complete(field, new)
  /\ Typed(field, new, bag[e])
  /\ \A k \in Keys \ touched : new[k] = bag[e][k]

(* Values that an import may carry for the bag of e. *)
RowFits(new, e, touched) ==
  /\ new \in Bag
  /\ Complete(field, Overlay(bag[e], new))
  /\ \A k \in Keys : new[k] # None =>
       k \in touched /\ field[k] # None /\ new[k].type = field[k].type

LEMMA PlanFits ==
  ASSUME Sane, NEW r \in Request, Shaped(r), Planful(r), r.op # "update",
         \A e \in Emps : r.plan[e] # None /\ e \notin r.unmerged =>
           Fits(r.plan[e], e, r.fresh, r.touched),
         \A e \in Emps : r.plan[e] # None /\ e \in r.unmerged =>
           e \in Present /\ RowFits(r.plan[e], e, r.touched)
  PROVE  Sound(r, field, place, bag)
<1>1. ASSUME NEW e \in Emps, r.plan[e] # None PROVE PlanSound(r, e, field, place, bag)
  <2>1. CASE e \in r.unmerged
    BY <1>1, <2>1 DEF PlanSound, RowSound, RowFits, Present
  <2>2. CASE e \notin r.unmerged
    BY <1>1, <2>2 DEF PlanSound, BagSound, Fits, Typed, Present
  <2> QED
    BY <2>1, <2>2
<1> QED
  BY <1>1 DEF Sound, RetypeSound

(* A row inserts its values, which are the whole bag. *)
LEMMA RowInserts ==
  ASSUME NEW e \in Emps \ Present, NEW new, NEW touched, bag[e] = EmptyBag,
         RowFits(new, e, touched)
  PROVE  Fits(new, e, Emps \ Present, touched)
<1>1. new \in Bag /\ Overlay(bag[e], new) = new
  BY OverlayEmpty DEF RowFits
<1>2. \A k \in Keys : bag[e][k] = None
  BY BagFacts
<1> QED
  BY <1>1, <1>2 DEF RowFits, Fits, Typed

LEMMA SaveSane ==
  ASSUME Sane, NEW w \in Workers, NEW plan \in [Emps -> Bag \cup {None}],
         NEW fresh \in SUBSET Emps, NEW unmerged \in SUBSET Emps,
         NEW touched \in SUBSET Keys,
         \A e \in Emps : plan[e] # None /\ e \notin unmerged =>
           Fits(plan[e], e, fresh, touched),
         \A e \in Emps : plan[e] # None /\ e \in unmerged =>
           e \in Present /\ RowFits(plan[e], e, touched),
         \A e \in fresh \cup unmerged : plan[e] # None,
         fresh \cap unmerged = {},
         Save(w, plan, fresh, unmerged, touched)
  PROVE  Sane'
<1> DEFINE x == [Idle EXCEPT !.at = "commit", !.op = "save",
               !.plan = plan, !.fresh = fresh, !.unmerged = unmerged,
               !.touched = touched]
<1>1. x \in Request
  BY IdleSound DEF Request, Places, Operations
<1>2. /\ x.at = "commit" /\ x.op = "save" /\ x.plan = plan /\ x.fresh = fresh
      /\ x.unmerged = unmerged /\ x.touched = touched
  BY IdleSound DEF Request
<1>3. Shaped(x) /\ Planful(x)
  BY <1>2 DEF Shaped, Planful
<1>4. Sound(x, field, place, bag)
  BY <1>1, <1>2, <1>3, PlanFits
<1>5. req' = [req EXCEPT ![w] = x] /\ UNCHANGED <<field, place, bag>>
  BY DEF Save
<1> HIDE DEF x
<1> QED
  BY <1>1, <1>4, <1>5, Load

LEMMA OneFacts ==
  ASSUME NEW e \in Emps, NEW new \in Bag
  PROVE  /\ One(e, new) \in [Emps -> Bag \cup {None}]
         /\ \A d \in Emps : One(e, new)[d] = IF d = e THEN new ELSE None
BY DEF One, NoPlan

LEMMA InputFacts ==
  Sane => /\ field \in Table /\ Inputs \subseteq Input
          /\ \A e \in Emps : bag[e] \in Bag
          /\ \A e \in Emps : e \notin Present => bag[e] = EmptyBag
BY InputsAssumption DEF Sane, FieldsTypeOK, Table, Input, Present

LEMMA SavesSane ==
  ASSUME Sane, NEW w \in Workers, NEW e \in Emps, NEW input \in Inputs,
         \/ ApiCreate(w, e, input) \/ FormCreate(w, e, input)
         \/ ApiPatch(w, e, input) \/ FormEdit(w, e, input)
  PROVE  Sane'
<1> DEFINE new == Resolved(field, input)
<1>a. /\ input \in Input /\ field \in Table /\ bag[e] \in Bag
      /\ e \notin Present => bag[e] = EmptyBag
  BY InputFacts
<1>b. /\ new \in Bag
      /\ \A k \in Keys : new[k] # None =>
           input[k] # None /\ field[k] # None /\ new[k].type = field[k].type
  BY <1>a, ResolvedFacts
<1>1. CASE ApiCreate(w, e, input)
  <2>1. Typed(field, new, bag[e])
    BY <1>b DEF Typed
  <2>2. Fits(new, e, {e}, Keys)
    BY <1>1, <1>b, <2>1 DEF ApiCreate, Fits
  <2>3. /\ One(e, new) \in [Emps -> Bag \cup {None}]
        /\ \A d \in Emps : One(e, new)[d] = IF d = e THEN new ELSE None
    BY <1>b, OneFacts
  <2>4. Save(w, One(e, new), {e}, {}, Keys)
    BY <1>1 DEF ApiCreate
  <2> HIDE DEF new
  <2> QED
    BY <1>b, <2>2, <2>3, <2>4, SaveSane, NoneAssumption
<1>2. CASE FormCreate(w, e, input)
  <2> DEFINE v == FormBag(field, EmptyBag, input)
  <2>1. v \in Bag /\ Typed(field, v, bag[e])
    BY <1>a, <1>2, BagFacts, FormBagFacts DEF FormCreate
  <2>2. Fits(v, e, {e}, Keys)
    BY <1>2, <2>1 DEF FormCreate, Fits
  <2>3. /\ One(e, v) \in [Emps -> Bag \cup {None}]
        /\ \A d \in Emps : One(e, v)[d] = IF d = e THEN v ELSE None
    BY <2>1, OneFacts
  <2>4. Save(w, One(e, v), {e}, {}, Keys)
    BY <1>2 DEF FormCreate
  <2> HIDE DEF v
  <2> QED
    BY <2>1, <2>2, <2>3, <2>4, SaveSane, NoneAssumption
<1>3. CASE ApiPatch(w, e, input)
  <2> DEFINE v == Overlay(bag[e], new)
  <2>1. /\ v \in Bag
        /\ \A k \in Keys : v[k] = IF new[k] # None THEN new[k] ELSE bag[e][k]
    BY <1>a, <1>b, OverlayFacts
  <2>2. Typed(field, v, bag[e])
    BY <1>a, <1>b, OverlayTyped
  <2>3. Fits(v, e, {}, Named(input))
    BY <1>3, <1>b, <2>1, <2>2 DEF ApiPatch, Fits, Named
  <2>4. /\ One(e, v) \in [Emps -> Bag \cup {None}]
        /\ \A d \in Emps : One(e, v)[d] = IF d = e THEN v ELSE None
    BY <2>1, OneFacts
  <2>5. Save(w, One(e, v), {}, {}, Named(input)) /\ Named(input) \in SUBSET Keys
    BY <1>3 DEF ApiPatch, Named
  <2> HIDE DEF v
  <2> QED
    BY <2>1, <2>3, <2>4, <2>5, SaveSane, NoneAssumption
<1>4. CASE FormEdit(w, e, input)
  <2> DEFINE v == FormBag(field, bag[e], input)
  <2>1. /\ v \in Bag /\ Typed(field, v, bag[e])
        /\ \A k \in Keys : k \notin Live(field) => v[k] = bag[e][k]
    BY <1>a, FormBagFacts
  <2>2. Fits(v, e, {}, Live(field))
    BY <1>4, <2>1 DEF FormEdit, Fits
  <2>3. /\ One(e, v) \in [Emps -> Bag \cup {None}]
        /\ \A d \in Emps : One(e, v)[d] = IF d = e THEN v ELSE None
    BY <2>1, OneFacts
  <2>4. Save(w, One(e, v), {}, {}, Live(field)) /\ Live(field) \in SUBSET Keys
    BY <1>4 DEF FormEdit, Live
  <2> HIDE DEF v
  <2> QED
    BY <2>1, <2>2, <2>3, <2>4, SaveSane, NoneAssumption
<1> QED
  BY <1>1, <1>2, <1>3, <1>4

LEMMA CsvSane ==
  ASSUME Sane, NEW w \in Workers, NEW rows \in SUBSET Emps,
         NEW columns \in SUBSET Keys, NEW input \in Inputs,
         CsvImport(w, rows, columns, input)
  PROVE  Sane'
<1> DEFINE cells == [k \in Keys |-> IF k \in columns THEN input[k] ELSE None]
           new == Resolved(field, cells)
           taken == {e \in rows : /\ RowAccepted(field, bag[e], cells, new)
                                  /\ e \in Present => new # EmptyBag}
           plan == [e \in Emps |-> IF e \in taken THEN new ELSE None]
           touched == Named(cells)
<1>1. cells \in Input /\ field \in Table /\ \A e \in Emps : bag[e] \in Bag
  BY InputFacts DEF Input
<1>2. /\ new \in Bag
      /\ \A k \in Keys : new[k] # None =>
           cells[k] # None /\ field[k] # None /\ new[k].type = field[k].type
  BY <1>1, ResolvedFacts
<1>3. touched \in SUBSET Keys /\ \A k \in Keys : cells[k] # None => k \in touched
  BY DEF Named
<1>4. Save(w, plan, taken \ Present, taken \cap Present, touched)
  BY DEF CsvImport
<1> HIDE DEF cells, new, touched
<1>5. \A e \in taken : RowFits(new, e, touched)
  BY <1>2, <1>3 DEF RowFits, RowAccepted
<1>6. taken \in SUBSET Emps
  OBVIOUS
<1> HIDE DEF taken
<1>7. /\ plan \in [Emps -> Bag \cup {None}]
      /\ \A e \in Emps : plan[e] # None <=> e \in taken
      /\ \A e \in taken : plan[e] = new
  BY <1>2, <1>6, NoneAssumption
<1>8. ASSUME NEW e \in taken, e \notin Present
      PROVE  Fits(new, e, taken \ Present, touched)
  <2>1. Fits(new, e, Emps \ Present, touched)
    BY <1>5, <1>6, <1>8, InputFacts, RowInserts
  <2> QED
    BY <1>8, <2>1 DEF Fits
<1> HIDE DEF plan
<1>9. \A e \in Emps : plan[e] # None /\ e \notin taken \cap Present =>
        Fits(plan[e], e, taken \ Present, touched)
  BY <1>7, <1>8
<1>10. \A e \in Emps : plan[e] # None /\ e \in taken \cap Present =>
         e \in Present /\ RowFits(plan[e], e, touched)
  BY <1>5, <1>7
<1> QED
  BY <1>3, <1>4, <1>6, <1>7, <1>9, <1>10, SaveSane

(* Laying the values of a row over the bag as it is. *)
LEMMA MergeSane ==
  ASSUME Sane, NEW w \in Workers, NEW e \in Emps, Merge(w, e)
  PROVE  /\ Sane'
         /\ req'[w].op = req[w].op /\ req'[w].at = req[w].at
         /\ \A v \in Workers \ {w} : req'[v] = req[v]
<1> DEFINE r == req[w]
           new == Overlay(bag[e], r.plan[e])
           x == [r EXCEPT !.plan[e] = IF new = bag[e] THEN None ELSE new,
                          !.unmerged = @ \ {e}, !.raced = @ \ {e},
                          !.shifted = IF e \in r.raced THEN @ \cup {e} ELSE @]
<1>1. /\ r \in Request /\ Sound(r, field, place, bag) /\ e \in r.unmerged
      /\ bag[e] \in Bag
      /\ req' = [req EXCEPT ![w] = x] /\ UNCHANGED <<field, place, bag>>
  BY DEF Merge, Sane, FieldsTypeOK
<1>2. /\ Shaped(r) /\ Planful(r) /\ r.plan \in [Emps -> Bag \cup {None}]
      /\ r.plan[e] # None /\ e \notin r.fresh
  BY <1>1 DEF Sound, Shaped, Request
<1>3. /\ new \in Bag
      /\ \A k \in Keys : new[k] = IF r.plan[e][k] # None THEN r.plan[e][k] ELSE bag[e][k]
  BY <1>1, <1>2, OverlayFacts
<1>4. r.at \in {"commit", "apply"} /\ r.op \in {"save", "wizard"}
  BY <1>2 DEF Planful
<1>5. RowSound(r, e, field, place, bag)
  BY <1>1, <1>2 DEF Sound, PlanSound
<1>6. x \in Request
  BY <1>1, <1>2, <1>3 DEF Request
<1>7. /\ x.at = r.at /\ x.op = r.op /\ x.key = r.key /\ x.from = r.from
      /\ x.shape = r.shape /\ x.fresh = r.fresh /\ x.touched = r.touched
      /\ x.stale = r.stale /\ x.unmerged = r.unmerged \ {e} /\ x.raced = r.raced \ {e}
      /\ \A d \in Emps \ {e} : x.plan[d] = r.plan[d]
      /\ x.plan[e] # None => x.plan[e] = new
      /\ \A d \in Emps \ {e} : d \in x.shifted <=> d \in r.shifted
      /\ e \in r.raced => e \in x.shifted
  BY <1>1, <1>2 DEF Request
<1> HIDE DEF x, new
<1>8. Shaped(x) /\ Planful(x)
  <2>1. r.fresh \in SUBSET Emps /\ r.unmerged \in SUBSET Emps
    BY <1>1 DEF Request
  <2> QED
    BY <1>2, <1>4, <1>7, <2>1 DEF Shaped, Planful
<1>9. ASSUME NEW d \in Emps, x.plan[d] # None PROVE PlanSound(x, d, field, place, bag)
  <2>1. CASE d = e
    <3>1. x.plan[e] = new /\ e \notin x.unmerged
      BY <1>7, <1>9, <2>1
    <3>2. ~x.stale /\ e \notin x.shifted => Complete(field, new)
      BY <1>5, <1>7 DEF RowSound, new
    <3>3. \A k \in Keys :
            /\ k \notin x.touched => new[k] = bag[e][k]
            /\ ~x.stale /\ new[k] # None /\ field[k] # None /\ new[k].type # field[k].type
                 => bag[e][k] # None /\ bag[e][k].type # field[k].type
      BY <1>3, <1>5, <1>7 DEF RowSound
    <3>4. place[e] # "absent"
      BY <1>5 DEF RowSound
    <3> QED
      BY <2>1, <3>1, <3>2, <3>3, <3>4 DEF PlanSound, BagSound
  <2>2. CASE d # e
    <3>1. PlanSound(r, d, field, place, bag) /\ x.plan[d] = r.plan[d]
      BY <1>1, <1>7, <1>9, <2>2 DEF Sound
    <3>2. /\ d \in x.unmerged <=> d \in r.unmerged
          /\ d \in x.raced <=> d \in r.raced
          /\ d \in x.shifted <=> d \in r.shifted
      BY <1>7, <2>2
    <3> QED
      BY <1>7, <3>1, <3>2 DEF PlanSound, BagSound, RowSound
  <2> QED
    BY <2>1, <2>2
<1>10. Sound(x, field, place, bag)
  BY <1>4, <1>7, <1>8, <1>9 DEF Sound, RetypeSound
<1>11. Sane'
  BY <1>1, <1>6, <1>10, Load
<1> QED
  BY <1>1, <1>7, <1>11 DEF Sane, FieldsTypeOK

-----------------------------------------------------------------------------
(* Commits.  Worker w goes on with a sound request, the others are         *)
(* disturbed by what it changed.                                           *)

LEMMA Commit ==
  ASSUME Sane, NEW w \in Workers, NEW x \in Request, NEW g \in BOOLEAN,
         NEW E \in SUBSET Emps, \A f, p, b : Sound(x, f, p, b),
         Proceed(w, x, g, E),
         ~g => field' = field,
         \A e \in Emps \ E : place'[e] = place[e] /\ bag'[e] = bag[e],
         \A e \in Emps : place[e] # "absent" => place'[e] # "absent"
  PROVE  /\ req' \in [Workers -> Request]
         /\ \A v \in Workers : Sound(req'[v], field', place', bag')
<1>1. \A v \in Workers : req'[v] = IF v = w THEN x ELSE Disturb(req[v], g, E)
  BY DEF Proceed
<1>2. \A v \in Workers : req[v] \in Request /\ Sound(req[v], field, place, bag)
  BY DEF Sane, FieldsTypeOK
<1>3. req' \in [Workers -> Request]
  <2>1. \A v \in Workers : req'[v] \in Request
    BY <1>1, <1>2, DisturbFacts
  <2>2. req' = [v \in Workers |-> req'[v]]
    BY DEF Proceed
  <2> QED
    BY <2>1, <2>2
<1>4. ASSUME NEW v \in Workers PROVE Sound(req'[v], field', place', bag')
  <2>1. CASE v = w
    BY <1>1, <2>1
  <2>2. CASE v # w
    <3>1. Sound(Disturb(req[v], g, E), field', place', bag')
      BY <1>2, DisturbSound
    <3> QED
      BY <1>1, <2>2, <3>1
  <2> QED
    BY <2>1, <2>2
<1> QED
  BY <1>3, <1>4

(* Storing the bags of a sound plan. *)
LEMMA StoreTypes ==
  ASSUME Sane, NEW w \in Workers, WriteBags(w),
         req[w].at \in {"commit", "apply"}
  PROVE  /\ place' \in [Emps -> {"absent", "roster", "archived"}]
         /\ bag' \in [Emps -> Bag]
         /\ \A e \in Emps : place'[e] = "absent" => bag'[e] = EmptyBag
         /\ \A e \in Emps \ Planned(w) : place'[e] = place[e] /\ bag'[e] = bag[e]
         /\ \A e \in Emps : place[e] # "absent" => place'[e] # "absent"
<1>1. req[w] \in Request /\ Sound(req[w], field, place, bag)
  BY DEF Sane, FieldsTypeOK
<1>2. req[w].plan \in [Emps -> Bag \cup {None}] /\ req[w].fresh \in SUBSET Emps
  BY <1>1 DEF Request
<1>3. \A e \in req[w].fresh : req[w].plan[e] # None
  BY <1>1 DEF Sound, Shaped
<1>4. \A e \in Emps : req[w].plan[e] # None /\ e \notin req[w].fresh => place[e] # "absent"
  BY <1>1 DEF Sound, PlanSound, BagSound, RowSound
<1> QED
  BY <1>2, <1>3, <1>4 DEF WriteBags, Planned, Sane, FieldsTypeOK

LEMMA CommitSaveSane ==
  ASSUME Sane, NEW w \in Workers, CommitSave(w)
  PROVE  Sane'
<1>1. Planned(w) \in SUBSET Emps
  BY DEF Planned
<1>2. /\ place' \in [Emps -> {"absent", "roster", "archived"}]
      /\ bag' \in [Emps -> Bag]
      /\ \A e \in Emps : place'[e] = "absent" => bag'[e] = EmptyBag
      /\ \A e \in Emps \ Planned(w) : place'[e] = place[e] /\ bag'[e] = bag[e]
      /\ \A e \in Emps : place[e] # "absent" => place'[e] # "absent"
  BY StoreTypes DEF CommitSave
<1>3. Proceed(w, Idle, FALSE, Planned(w)) /\ field' = field
  BY DEF CommitSave
<1>4. /\ req' \in [Workers -> Request]
      /\ \A v \in Workers : Sound(req'[v], field', place', bag')
  BY <1>1, <1>2, <1>3, IdleSound, Commit
<1> QED
  BY <1>2, <1>3, <1>4 DEF Sane, FieldsTypeOK

LEMMA ArchiveSane ==
  ASSUME Sane, NEW w \in Workers, NEW e \in Emps, Archive(w, e) \/ Restore(w, e)
  PROVE  Sane'
<1>1. /\ place' \in [Emps -> {"absent", "roster", "archived"}]
      /\ \A d \in Emps \ {e} : place'[d] = place[d]
      /\ \A d \in Emps : place[d] = "absent" <=> place'[d] = "absent"
      /\ UNCHANGED <<field, bag>>
      /\ Proceed(w, Idle, FALSE, {e})
  BY DEF Archive, Restore, Sane, FieldsTypeOK
<1>2. /\ {e} \in SUBSET Emps
      /\ \A d \in Emps \ {e} : place'[d] = place[d] /\ bag'[d] = bag[d]
      /\ \A d \in Emps : place[d] # "absent" => place'[d] # "absent"
      /\ field' = field
  BY <1>1
<1>3. /\ req' \in [Workers -> Request]
      /\ \A v \in Workers : Sound(req'[v], field', place', bag')
  BY <1>1, <1>2, IdleSound, Commit
<1> QED
  BY <1>1, <1>3 DEF Sane, FieldsTypeOK

-----------------------------------------------------------------------------
(* The registry. *)

LEMMA ChangeSane ==
  ASSUME Sane, NEW w \in Workers, NEW op \in {"create", "update", "delete"},
         NEW k \in Keys, NEW from \in Definition \cup {None},
         NEW shape \in Definition \cup {None},
         op = "create" => shape # None,
         op = "update" => /\ shape # None /\ from # None
                          /\ shape.type # from.type => Has(k) = {},
         op = "delete" => shape = None,
         Change(w, op, k, from, shape)
  PROVE  Sane'
<1> DEFINE x == [Idle EXCEPT !.at = "commit", !.op = op, !.key = k,
                             !.from = from, !.shape = shape]
<1>1. x \in Request
  BY IdleSound DEF Request, Places, Operations
<1>2. /\ x.at = "commit" /\ x.op = op /\ x.key = k /\ x.from = from
      /\ x.shape = shape /\ x.plan = NoPlan /\ x.fresh = {} /\ x.unmerged = {}
  BY IdleSound DEF Request
<1>3. \A e \in Emps : NoPlan[e] = None
  BY DEF NoPlan
<1>4. Shaped(x) /\ Planful(x)
  BY <1>2, <1>3 DEF Shaped, Planful
<1>5. RetypeSound(x, place, bag)
  BY <1>2 DEF RetypeSound, Has, Roster
<1>6. Sound(x, field, place, bag)
  BY <1>2, <1>3, <1>4, <1>5 DEF Sound
<1>7. req' = [req EXCEPT ![w] = x] /\ UNCHANGED <<field, place, bag>>
  BY DEF Change
<1> HIDE DEF x
<1> QED
  BY <1>1, <1>6, <1>7, Load

LEMMA ShapeFacts ==
  ASSUME NEW k \in Keys, NEW shape \in Shapes[k]
  PROVE  shape \in Definition /\ shape # None
BY ShapesAssumption, NoneAssumption DEF Definition

LEMMA CommitFieldSane ==
  ASSUME Sane, NEW w \in Workers, CommitField(w)
  PROVE  Sane'
<1> DEFINE r == req[w]
<1>1. r \in Request /\ Shaped(r)
  BY DEF Sane, FieldsTypeOK, Sound
<1>2. /\ r.key \in Keys /\ r.op \in {"create", "update", "delete"}
      /\ r.from \in Definition \cup {None} /\ r.shape \in Definition \cup {None}
      /\ r.op = "update" => r.shape # None /\ r.from # None /\ field[r.key] # None
  BY <1>1 DEF Shaped, CommitField, Refused, Request
<1>3. field \in [Keys -> Definition \cup {None}]
  BY DEF Sane, FieldsTypeOK
<1>4. r.op = "update" => Edited(r) \in Definition
  BY <1>2, <1>3 DEF Edited, Definition
<1>5. field' \in [Keys -> Definition \cup {None}]
  BY <1>2, <1>3, <1>4 DEF CommitField
<1>6. Proceed(w, Idle, TRUE, {}) /\ UNCHANGED <<place, bag>>
  BY DEF CommitField
<1>7. /\ req' \in [Workers -> Request]
      /\ \A v \in Workers : Sound(req'[v], field', place', bag')
  BY <1>6, IdleSound, Commit
<1> QED
  BY <1>5, <1>6, <1>7 DEF Sane, FieldsTypeOK

LEMMA FieldsSane ==
  ASSUME Sane, NEW w \in Workers, Saves(w) \/ Registry(w)
  PROVE  Sane'
<1>1. ASSUME NEW k \in Keys, NEW shape \in Shapes[k], CreateField(w, k, shape)
      PROVE  Sane'
  BY <1>1, ShapeFacts, ChangeSane DEF CreateField
<1>2. ASSUME NEW k \in Keys, NEW shape \in Shapes[k], UpdateField(w, k, shape)
      PROVE  Sane'
  <2>1. field[k] \in Definition \cup {None}
    BY DEF Sane, FieldsTypeOK
  <2> QED
    BY <1>2, <2>1, ShapeFacts, ChangeSane DEF UpdateField, MayRetype
<1>3. ASSUME NEW k \in Keys, DeleteField(w, k)
      PROVE  Sane'
  BY <1>3, ChangeSane DEF DeleteField
<1>4. CommitRefused(w) => Sane'
  BY EndLoad DEF CommitRefused
<1> QED
  BY <1>1, <1>2, <1>3, <1>4, CommitFieldSane, SavesSane, CsvSane, CommitSaveSane,
     MergeSane, ArchiveSane DEF Saves, Registry

-----------------------------------------------------------------------------
(* The wizard. *)

BatchTypes ==
  /\ status \in Statuses
  /\ mapping \in Mappings \cup {None}
  /\ status # "none" => mapping \in Mappings
  /\ saving \in [Workers -> Saving \cup {None}]
  /\ imported \in {"never", "once", "again", "unsure"}

LEMMA FinishingSound ==
  /\ Finishing \in Request /\ Finishing.at = "finish" /\ Finishing.op = "wizard"
  /\ \A f, p, b : Sound(Finishing, f, p, b)
<1>1. /\ Finishing.at = "finish" /\ Finishing.op = "wizard"
      /\ Finishing.plan = NoPlan /\ Finishing.fresh = {} /\ Finishing.unmerged = {}
  BY IdleSound DEF Finishing, Request
<1>2. Finishing \in Request
  BY IdleSound DEF Finishing, Request, Places, Operations
<1>3. \A e \in Emps : NoPlan[e] = None
  BY DEF NoPlan
<1>4. ASSUME NEW f, NEW p, NEW b PROVE Sound(Finishing, f, p, b)
  BY <1>1, <1>3 DEF Sound, Shaped, Planful, RetypeSound
<1> QED
  BY <1>1, <1>2, <1>4

LEMMA BeginCommitSane ==
  ASSUME Sane, BatchTypes, NEW w \in Workers, BeginCommit(w)
  PROVE  Sane'
<1> DEFINE new == [type |-> mapping.type, active |-> TRUE, required |-> FALSE]
           x == [Idle EXCEPT !.at = "classify", !.op = "wizard", !.from = new,
                             !.key = mapping.key, !.touched = {mapping.key}]
<1>1. mapping.key \in Keys /\ mapping.type \in Types
  BY MappingsAssumption DEF BeginCommit, BatchTypes, Open
<1>2. new \in Definition /\ new # None
  <2>1. new \in Definition
    BY <1>1 DEF Definition
  <2> QED
    BY <2>1, NoneAssumption
<1>3. x \in Request
  BY <1>1, <1>2, IdleSound DEF Request, Places, Operations
<1>4. /\ x.at = "classify" /\ x.op = "wizard" /\ x.from = new /\ x.key = mapping.key
      /\ x.plan = NoPlan /\ x.fresh = {} /\ x.unmerged = {} /\ x.touched = {mapping.key}
  BY IdleSound DEF Request
<1>5. \A e \in Emps : NoPlan[e] = None
  BY DEF NoPlan
<1>6. Sound(x, field, place, bag)
  BY <1>1, <1>2, <1>4, <1>5 DEF Sound, Shaped, Planful, RetypeSound
<1>7. req' = [req EXCEPT ![w] = x] /\ UNCHANGED <<field, place, bag>>
  BY DEF BeginCommit
<1> HIDE DEF x
<1> QED
  BY <1>3, <1>6, <1>7, Load

(* The values of the rows complete the bags, are typed and about key only. *)
LEMMA WizardPlanFacts ==
  ASSUME NEW f \in Table, NEW key \in Keys, bag \in [Emps -> Bag]
  PROVE  LET plan == WizardPlan(f, key)
         IN /\ plan \in [Emps -> Bag \cup {None}]
            /\ \A e \in Emps : plan[e] # None =>
                 /\ Complete(f, Overlay(bag[e], plan[e]))
                 /\ \A k \in Keys : plan[e][k] # None =>
                      k = key /\ f[k] # None /\ plan[e][k].type = f[k].type
<1> DEFINE plan == WizardPlan(f, key)
<1>1. ASSUME NEW e \in Emps
      PROVE  /\ plan[e] \in Bag \cup {None}
             /\ plan[e] # None =>
                 /\ Complete(f, Overlay(bag[e], plan[e]))
                 /\ \A k \in Keys : plan[e][k] # None =>
                      k = key /\ f[k] # None /\ plan[e][k].type = f[k].type
  <2>1. CASE e \in Rows /\ RowAccepted(f, bag[e], EmptyBag, RowValues(f, key, e))
    <3> DEFINE v == Coerce(f, key, Cells[e])
               new == [EmptyBag EXCEPT ![key] = v]
    <3>1. Cells[e] \in Raws \cup {None}
      BY <2>1, CellsAssumption DEF Rows
    <3>2. v \in Value \cup {None} /\ (v # None => f[key] # None /\ v.type = f[key].type)
      BY <3>1, CoerceFacts
    <3>3. plan[e] = new /\ Complete(f, Overlay(bag[e], new))
      BY <2>1 DEF WizardPlan, RowValues, RowAccepted
    <3> HIDE DEF v
    <3>4. /\ new \in Bag
          /\ \A k \in Keys : new[k] = IF k = key THEN v ELSE None
      BY <3>2, BagFacts DEF Bag
    <3> HIDE DEF new, plan
    <3> QED
      BY <3>2, <3>3, <3>4
  <2>2. CASE ~(e \in Rows /\ RowAccepted(f, bag[e], EmptyBag, RowValues(f, key, e)))
    BY <2>2 DEF WizardPlan
  <2> QED
    BY <2>1, <2>2
<1>2. plan = [e \in Emps |-> plan[e]]
  BY DEF WizardPlan
<1> HIDE DEF plan
<1> QED
  BY <1>1, <1>2 DEF plan

LEMMA ClassifySane ==
  ASSUME Sane, NEW w \in Workers, Classify(w)
  PROVE  Sane'
<1> DEFINE r == req[w]
           plan == WizardPlan(field, r.key)
           merging == {e \in Present : plan[e] # None}
           x == [r EXCEPT !.at = "apply", !.from = None, !.plan = plan,
                          !.fresh = Inserted(plan), !.unmerged = merging,
                          !.stale = FALSE, !.raced = {}]
<1>1. r \in Request /\ Shaped(r) /\ r.op = "wizard" /\ r.at = "classify"
  BY DEF Sane, FieldsTypeOK, Sound, Classify, Shaped
<1>2. /\ plan \in [Emps -> Bag \cup {None}]
      /\ \A e \in Emps : plan[e] # None =>
           /\ Complete(field, Overlay(bag[e], plan[e]))
           /\ \A k \in Keys : plan[e][k] # None =>
                k = r.key /\ field[k] # None /\ plan[e][k].type = field[k].type
  BY <1>1, WizardPlanFacts DEF Sane, FieldsTypeOK, Table, Shaped
<1>3. /\ \A e \in Emps : e \in Inserted(plan) <=> e \notin Present /\ plan[e] # None
      /\ \A e \in Emps : e \in merging <=> e \in Present /\ plan[e] # None
      /\ Inserted(plan) \in SUBSET Emps /\ merging \in SUBSET Emps
  BY DEF Inserted, Present
<1>4. req' = [req EXCEPT ![w] = x] /\ UNCHANGED <<field, place, bag>>
  BY DEF Classify
<1> HIDE DEF plan, merging
<1>5. x \in Request
  BY <1>1, <1>2, <1>3 DEF Request, Places
<1>6. /\ x.at = "apply" /\ x.op = "wizard" /\ x.plan = plan
      /\ x.fresh = Inserted(plan) /\ x.unmerged = merging
      /\ x.touched = r.touched /\ x.key = r.key
  BY <1>1 DEF Request
<1> HIDE DEF x
<1>7. Shaped(x) /\ Planful(x)
  BY <1>1, <1>3, <1>6 DEF Shaped, Planful
<1>8. Sound(x, field, place, bag)
  <2>1. x.touched = {r.key}
    BY <1>1, <1>6 DEF Shaped
  <2>2. ASSUME NEW e \in Emps, plan[e] # None
        PROVE  RowFits(plan[e], e, x.touched)
    BY <1>2, <2>1, <2>2 DEF RowFits
  <2>3. ASSUME NEW e \in Emps, plan[e] # None, e \notin merging
        PROVE  Fits(plan[e], e, x.fresh, x.touched)
    <3>1. e \notin Present /\ bag[e] = EmptyBag /\ e \in x.fresh
      BY <1>3, <1>6, <2>3, InputFacts
    <3>2. Fits(plan[e], e, Emps \ Present, x.touched)
      BY <2>2, <2>3, <3>1, RowInserts
    <3> QED
      BY <3>1, <3>2 DEF Fits
  <2>4. \A e \in Emps : e \in merging => e \in Present
    BY <1>3
  <2> QED
    BY <1>5, <1>6, <1>7, <2>2, <2>3, <2>4, PlanFits
<1> QED
  BY <1>4, <1>5, <1>8, Load

LEMMA DefineSane ==
  ASSUME Sane, NEW w \in Workers, DefineAndApply(w)
  PROVE  Sane'
<1> DEFINE r == req[w]
           f == [field EXCEPT ![r.key] = r.from]
           plan == WizardPlan(f, r.key)
           E == {e \in Emps : plan[e] # None}
<1>1. r \in Request /\ Shaped(r) /\ r.at = "classify" /\ r.key \in Keys
  BY DEF Sane, FieldsTypeOK, Sound, DefineAndApply, Shaped
<1>2. f \in Table
  BY <1>1 DEF Sane, FieldsTypeOK, Table, Request
<1>3. plan \in [Emps -> Bag \cup {None}]
  BY <1>1, <1>2, WizardPlanFacts DEF Sane, FieldsTypeOK
<1>4. Store(plan) /\ field' = f /\ Proceed(w, Finishing, TRUE, E)
  BY DEF DefineAndApply
<1> HIDE DEF f, plan
<1>5. /\ place' \in [Emps -> {"absent", "roster", "archived"}]
      /\ bag' \in [Emps -> Bag]
      /\ \A e \in Emps : place'[e] = "absent" => bag'[e] = EmptyBag
      /\ \A e \in Emps \ E : place'[e] = place[e] /\ bag'[e] = bag[e]
      /\ \A e \in Emps : place[e] # "absent" => place'[e] # "absent"
  <2>1. \A e \in Emps : plan[e] # None => Overlay(bag[e], plan[e]) \in Bag
    BY <1>3, OverlayFacts DEF Sane, FieldsTypeOK
  <2> QED
    BY <1>3, <1>4, <2>1 DEF Store, Inserted, Present, Sane, FieldsTypeOK
<1>6. E \in SUBSET Emps
  OBVIOUS
<1> HIDE DEF E
<1>7. /\ req' \in [Workers -> Request]
      /\ \A v \in Workers : Sound(req'[v], field', place', bag')
  BY <1>4, <1>5, <1>6, FinishingSound, Commit
<1> QED
  BY <1>2, <1>4, <1>5, <1>7 DEF Sane, FieldsTypeOK, Table

LEMMA ApplySane ==
  ASSUME Sane, NEW w \in Workers, Apply(w)
  PROVE  Sane'
<1>1. Planned(w) \in SUBSET Emps
  BY DEF Planned
<1>2. /\ place' \in [Emps -> {"absent", "roster", "archived"}]
      /\ bag' \in [Emps -> Bag]
      /\ \A e \in Emps : place'[e] = "absent" => bag'[e] = EmptyBag
      /\ \A e \in Emps \ Planned(w) : place'[e] = place[e] /\ bag'[e] = bag[e]
      /\ \A e \in Emps : place[e] # "absent" => place'[e] # "absent"
  BY StoreTypes DEF Apply
<1>3. Proceed(w, Finishing, FALSE, Planned(w)) /\ field' = field
  BY DEF Apply
<1>4. /\ req' \in [Workers -> Request]
      /\ \A v \in Workers : Sound(req'[v], field', place', bag')
  BY <1>1, <1>2, <1>3, FinishingSound, Commit
<1> QED
  BY <1>2, <1>3, <1>4 DEF Sane, FieldsTypeOK

LEMMA RestartSane ==
  ASSUME Sane, Restart
  PROVE  Sane'
BY IdleSound DEF Restart, Sane, FieldsTypeOK

LEMMA SaneNext ==
  ASSUME Sane, BatchTypes, [Next]_vars
  PROVE  Sane'
<1>1. ASSUME NEW w \in Workers, Wizard(w)
      PROVE  Sane'
  <2>1. Finish(w) \/ ImportRefused(w) \/ Fail(w) => Sane'
    BY EndLoad DEF Finish, ImportRefused, Fail
  <2> QED
    BY <1>1, <2>1, BeginCommitSane, DefineSane, ClassifySane, ApplySane DEF Wizard
<1>2. ASSUME UNCHANGED fieldVars PROVE Sane'
  BY <1>2 DEF fieldVars, Sane, FieldsTypeOK
<1>3. ASSUME NEW w \in Workers, Mapping(w) \/ CommitMapping(w) \/ FailSaving(w)
      PROVE  Sane'
  BY <1>2, <1>3
     DEF Mapping, LoadMapping, LoadResolve, LoadBatch, CommitMapping, FailSaving
<1>5. ASSUME NEW m \in Mappings, Upload(m)
      PROVE  Sane'
  BY <1>2, <1>5 DEF Upload
<1>4. UNCHANGED vars => Sane'
  BY <1>2 DEF vars
<1> QED
  BY <1>1, <1>3, <1>4, <1>5, FieldsSane, RestartSane DEF Next

LEMMA BatchTypesNext ==
  ASSUME Sane, OneCommit, BatchTypes, [Next]_vars
  PROVE  BatchTypes'
<1>1. ASSUME NEW w \in Workers, Wizard(w)
      PROVE  BatchTypes'
  <2>1. BeginCommit(w) => BatchTypes'
    BY DEF BeginCommit, BatchTypes
  <2>6. Finish(w) => BatchTypes'
    <3>1. Finish(w) => w \in Committing
      BY DEF Finish, Sane, Sound, Shaped, Committing
    <3> QED
      BY <3>1 DEF Finish, BatchTypes, OneCommit, Statuses
  <2>5. Fail(w) => BatchTypes'
    BY DEF Fail, BatchTypes
  <2>2. DefineAndApply(w) => BatchTypes'
    BY DEF DefineAndApply, Applied, BatchTypes
  <2>3. Apply(w) => BatchTypes'
    BY DEF Apply, Applied, BatchTypes
  <2>4. Classify(w) \/ ImportRefused(w) => BatchTypes'
    BY DEF Classify, ImportRefused, batchVars, BatchTypes
  <2> QED
    BY <1>1, <2>1, <2>2, <2>3, <2>4, <2>5, <2>6 DEF Wizard
<1>2. ASSUME NEW w \in Workers, Mapping(w) PROVE BatchTypes'
  <2>1. PICK next \in {"mapped", "resolved"}, target \in Mappings : LoadBatch(w, next, target)
    BY <1>2 DEF Mapping, LoadMapping, LoadResolve, LoadBatch, BatchTypes
  <2>2. [status |-> Differs(status, next), target |-> Differs(mapping, target)] \in Saving
    BY DEF Saving, Differs
  <2> QED
    BY <2>1, <2>2 DEF LoadBatch, BatchTypes
<1>3. ASSUME NEW w \in Workers, CommitMapping(w) PROVE BatchTypes'
  <2>1. saving[w] \in Saving /\ status # "none"
    BY <1>3 DEF CommitMapping, BatchTypes, OneCommit
  <2>2. /\ saving[w].status # None => saving[w].status \in {"mapped", "resolved"}
        /\ saving[w].target # None => saving[w].target \in Mappings
    BY <2>1 DEF Saving
  <2>3. status' \in Statuses \ {"none"} /\ mapping' \in Mappings
    BY <1>3, <2>1, <2>2 DEF CommitMapping, BatchTypes, Statuses, Open
  <2>4. imported' \in {"unsure", "never"} /\ saving' = [saving EXCEPT ![w] = None]
    BY <1>3 DEF CommitMapping
  <2> QED
    BY <2>3, <2>4 DEF BatchTypes
<1>4. ASSUME NEW w \in Workers, FailSaving(w) PROVE BatchTypes'
  BY <1>4 DEF FailSaving, BatchTypes
<1>5. ASSUME NEW m \in Mappings, Upload(m) PROVE BatchTypes'
  BY <1>5 DEF Upload, BatchTypes, Statuses, Open
<1>6. Restart => BatchTypes'
  BY DEF Restart, BatchTypes
<1>7. UNCHANGED batchVars => BatchTypes'
  BY DEF batchVars, BatchTypes
<1> QED
  BY <1>1, <1>2, <1>3, <1>4, <1>5, <1>6, <1>7 DEF Next, vars, batchVars

-----------------------------------------------------------------------------
(* Applying once.  All that matters of a request is whether it commits the *)
(* batch, and where it is. *)

Op(w) == req[w].op
At(w) == req[w].at

LEMMA ProceedFacts ==
  ASSUME Sane, NEW w \in Workers, NEW x \in Request, NEW g \in BOOLEAN,
         NEW E \in SUBSET Emps, Proceed(w, x, g, E)
  PROVE  /\ Op(w)' = x.op /\ At(w)' = x.at
         /\ \A v \in Workers \ {w} : Op(v)' = Op(v) /\ At(v)' = At(v)
<1>1. \A v \in Workers : req[v] \in Request
  BY DEF Sane, FieldsTypeOK
<1>2. \A v \in Workers : req'[v] = IF v = w THEN x ELSE Disturb(req[v], g, E)
  BY DEF Proceed
<1>3. \A v \in Workers : LET d == Disturb(req[v], g, E)
                         IN d.at = req[v].at /\ d.op = req[v].op
  BY <1>1, DisturbFacts
<1> QED
  BY <1>2, <1>3 DEF Op, At

LEMMA PutFacts ==
  ASSUME Sane, NEW w \in Workers, NEW x, req' = [req EXCEPT ![w] = x]
  PROVE  /\ Op(w)' = x.op /\ At(w)' = x.at
         /\ \A v \in Workers \ {w} : Op(v)' = Op(v) /\ At(v)' = At(v)
BY DEF Sane, FieldsTypeOK, Op, At

(* The other writers are no commits of the batch. *)
LEMMA FieldsApart ==
  ASSUME Sane, NEW w \in Workers, Saves(w) \/ Registry(w)
  PROVE  /\ \/ Op(w) # "wizard" /\ Op(w)' # "wizard"
            \/ Op(w)' = Op(w) /\ At(w)' = At(w)
         /\ \A v \in Workers \ {w} : Op(v)' = Op(v) /\ At(v)' = At(v)
<1>1. ASSUME NEW plan, NEW fresh, NEW unmerged, NEW touched,
             Save(w, plan, fresh, unmerged, touched)
      PROVE  /\ Op(w) # "wizard" /\ Op(w)' # "wizard"
             /\ \A v \in Workers \ {w} : Op(v)' = Op(v) /\ At(v)' = At(v)
  <2> DEFINE x == [Idle EXCEPT !.at = "commit", !.op = "save",
                               !.plan = plan, !.fresh = fresh, !.unmerged = unmerged,
                               !.touched = touched]
  <2>1. x.op = "save"
    BY DEF Idle
  <2>2. req' = [req EXCEPT ![w] = x] /\ Op(w) = "none"
    BY <1>1, IdleSound DEF Save, Op
  <2> HIDE DEF x
  <2> QED
    BY <2>1, <2>2, PutFacts
<1>2. ASSUME NEW op \in {"create", "update", "delete"}, NEW k, NEW from, NEW shape,
             Change(w, op, k, from, shape)
      PROVE  /\ Op(w) # "wizard" /\ Op(w)' # "wizard"
             /\ \A v \in Workers \ {w} : Op(v)' = Op(v) /\ At(v)' = At(v)
  <2> DEFINE x == [Idle EXCEPT !.at = "commit", !.op = op, !.key = k,
                               !.from = from, !.shape = shape]
  <2>1. x.op = op
    BY DEF Idle
  <2>2. req' = [req EXCEPT ![w] = x] /\ Op(w) = "none"
    BY <1>2, IdleSound DEF Change, Op
  <2> HIDE DEF x
  <2> QED
    BY <2>1, <2>2, PutFacts
<1>3. ASSUME NEW g \in BOOLEAN, NEW E \in SUBSET Emps, Proceed(w, Idle, g, E)
      PROVE  /\ Op(w)' # "wizard"
             /\ \A v \in Workers \ {w} : Op(v)' = Op(v) /\ At(v)' = At(v)
  BY <1>3, IdleSound, ProceedFacts
<1>4. ASSUME NEW e \in Emps, Archive(w, e) \/ Restore(w, e)
      PROVE  Op(w) # "wizard" /\ Proceed(w, Idle, FALSE, {e})
  BY <1>4, IdleSound DEF Archive, Restore, Op
<1>5. CommitSave(w) => Op(w) # "wizard" /\ Proceed(w, Idle, FALSE, Planned(w))
  BY DEF CommitSave, Op
<1>6. CommitField(w) => Op(w) # "wizard" /\ Proceed(w, Idle, TRUE, {})
  BY DEF CommitField, Op
<1>7. CommitRefused(w) => Op(w) # "wizard" /\ req' = [req EXCEPT ![w] = Idle]
  BY DEF CommitRefused, End, Op, Sane, Sound, Shaped
<1>8. Planned(w) \in SUBSET Emps /\ \A e \in Emps : {e} \in SUBSET Emps
  BY DEF Planned
<1>11. ASSUME NEW e \in Emps, Merge(w, e)
       PROVE  /\ Op(w)' = Op(w) /\ At(w)' = At(w)
              /\ \A v \in Workers \ {w} : Op(v)' = Op(v) /\ At(v)' = At(v)
  BY <1>11, MergeSane DEF Op, At
<1>9. CASE Saves(w)
  BY <1>1, <1>3, <1>4, <1>5, <1>8, <1>9, <1>11
     DEF Saves, ApiCreate, FormCreate, ApiPatch, FormEdit, CsvImport
<1>10. CASE Registry(w)
  BY <1>2, <1>3, <1>6, <1>7, <1>10, IdleSound, PutFacts
     DEF Registry, CreateField, UpdateField, DeleteField
<1> QED
  BY <1>9, <1>10

LEMMA OneCommitNext ==
  ASSUME Sane, BatchTypes, OneCommit, [Next]_vars
  PROVE  OneCommit'
<1>a. \A v \in Workers : (v \in Committing <=> Op(v) = "wizard")
                           /\ (v \in Committing' <=> Op(v)' = "wizard")
  BY DEF Committing, Op
<1>b. \A v \in Workers : (Op(v) = "wizard" <=> At(v) \in {"classify", "apply", "finish"})
                           /\ (Op(v) = "none" <=> At(v) = "idle")
  BY DEF Sane, Sound, Shaped, Op, At
<1>1. ASSUME NEW w \in Workers, Saves(w) \/ Registry(w), UNCHANGED batchVars
      PROVE  OneCommit'
  <2>1. /\ Committing' = Committing
        /\ \A v \in Committing : req'[v].at = req[v].at
    BY <1>1, <1>a, FieldsApart DEF Committing, Op, At
  <2> QED
    BY <1>1, <2>1 DEF OneCommit, batchVars
<1>2. ASSUME NEW w \in Workers, BeginCommit(w)
      PROVE  OneCommit'
  <2>1. At(w)' = "classify" /\ Op(w)' = "wizard"
    BY <1>2 DEF BeginCommit, At, Op, Sane, FieldsTypeOK, Idle
  <2>2. imported' # "unsure" => Committing = {} /\ imported' = imported
    BY <1>2 DEF BeginCommit
  <2>3. \A v \in Workers \ {w} : req'[v] = req[v]
    BY <1>2 DEF BeginCommit, Sane, FieldsTypeOK
  <2>4. Committing = {} => Committing' = {w}
    BY <1>a, <2>1, <2>3 DEF Committing, Op
  <2>5. status' = status /\ saving' = saving /\ status \in Open
    BY <1>2 DEF BeginCommit
  <2> QED
    BY <2>1, <2>2, <2>4, <2>5 DEF OneCommit, At, BatchTypes, Open
<1>3. ASSUME NEW w \in Workers, DefineAndApply(w) \/ Apply(w)
      PROVE  OneCommit'
  <2>1. w \in Committing /\ At(w) # "finish" /\ At(w)' = "finish" /\ Op(w)' = "wizard"
        /\ \A v \in Workers \ {w} : Op(v)' = Op(v) /\ At(v)' = At(v)
    <3>1. CASE DefineAndApply(w)
      <4> DEFINE r == req[w]
                 f == [field EXCEPT ![r.key] = r.from]
                 E == {e \in Emps : WizardPlan(f, r.key)[e] # None}
      <4>1. Proceed(w, Finishing, TRUE, E) /\ At(w) = "classify"
        BY <3>1 DEF DefineAndApply, At
      <4>2. E \in SUBSET Emps
        OBVIOUS
      <4> HIDE DEF E
      <4>3. /\ Op(w)' = "wizard" /\ At(w)' = "finish"
            /\ \A v \in Workers \ {w} : Op(v)' = Op(v) /\ At(v)' = At(v)
        BY <4>1, <4>2, FinishingSound, ProceedFacts
      <4> QED
        BY <1>a, <1>b, <4>1, <4>3
    <3>2. CASE Apply(w)
      <4>1. Proceed(w, Finishing, FALSE, Planned(w)) /\ At(w) = "apply"
        BY <3>2 DEF Apply, At
      <4>2. Planned(w) \in SUBSET Emps
        BY DEF Planned
      <4>3. /\ Op(w)' = "wizard" /\ At(w)' = "finish"
            /\ \A v \in Workers \ {w} : Op(v)' = Op(v) /\ At(v)' = At(v)
        BY <4>1, <4>2, FinishingSound, ProceedFacts
      <4> QED
        BY <1>a, <1>b, <4>1, <4>3
    <3> QED
      BY <1>3, <3>1, <3>2
  <2>2. Committing' = Committing
    BY <1>a, <2>1 DEF Committing, Op
  <2>3. UNCHANGED <<status, saving>> /\ Applied
    BY <1>3 DEF DefineAndApply, Apply
  <2>4. \A v \in Committing : v # w => req'[v].at = req[v].at
    BY <2>1 DEF At, Committing
  <2> QED
    BY <2>1, <2>2, <2>3, <2>4 DEF OneCommit, Applied, BatchTypes, At
<1>4. ASSUME NEW w \in Workers, Classify(w)
      PROVE  OneCommit'
  <2>1. At(w) = "classify" /\ At(w)' = "apply" /\ Op(w)' = Op(w)
        /\ \A v \in Workers \ {w} : req'[v] = req[v]
    BY <1>4 DEF Classify, At, Op, Sane, FieldsTypeOK, Request
  <2>2. Committing' = Committing
    BY <1>a, <2>1 DEF Committing, Op
  <2>3. \A v \in Committing : (req'[v].at = "finish") <=> (req[v].at = "finish")
    BY <2>1 DEF At, Committing
  <2> QED
    BY <1>4, <2>2, <2>3 DEF OneCommit, Classify, batchVars
<1>5. ASSUME NEW w \in Workers, End(w)
      PROVE  /\ Committing' = Committing \ {w}
             /\ \A v \in Committing' : req'[v] = req[v]
  BY <1>5, IdleSound DEF End, Committing, Sane, FieldsTypeOK
<1>6. ASSUME NEW w \in Workers, Finish(w)
      PROVE  OneCommit'
  <2>1. End(w) /\ At(w) = "finish" /\ w \in Committing
    BY <1>6, <1>a, <1>b DEF Finish, At
  <2>2. status' = "committed" /\ imported' = imported /\ saving' = saving
    BY <1>6 DEF Finish
  <2> QED
    BY <1>5, <2>1, <2>2 DEF OneCommit, At, BatchTypes
<1>7. ASSUME NEW w \in Workers, ImportRefused(w) \/ Fail(w)
      PROVE  OneCommit'
  <2>1. /\ End(w) /\ status' = status /\ saving' = saving
        /\ imported' \in {imported, "unsure"}
    BY <1>7 DEF ImportRefused, Fail, batchVars
  <2>2. imported' # "unsure" => At(w) # "finish"
    BY <1>7 DEF ImportRefused, Fail, At
  <2> QED
    BY <1>5, <2>1, <2>2 DEF OneCommit, At
<1>11. ASSUME UNCHANGED fieldVars
       PROVE  Committing' = Committing /\ req' = req
  BY <1>11 DEF fieldVars, Committing
<1>8. ASSUME NEW m \in Mappings, Upload(m)
      PROVE  OneCommit'
  BY <1>8, <1>11 DEF Upload, OneCommit, BatchTypes
<1>12. ASSUME NEW w \in Workers, Mapping(w) \/ FailSaving(w)
       PROVE  OneCommit'
  <2>1. /\ Committing' = Committing /\ req' = req /\ UNCHANGED <<status, imported>>
        /\ \A v \in Workers : saving'[v] # None => saving[v] # None \/ status # "none"
    BY <1>11, <1>12
       DEF Mapping, LoadMapping, LoadResolve, LoadBatch, FailSaving, BatchTypes
  <2> QED
    BY <2>1 DEF OneCommit
<1>13. ASSUME NEW w \in Workers, CommitMapping(w)
       PROVE  OneCommit'
  <2>1. /\ Committing' = Committing /\ req' = req
        /\ imported' = IF Committing # {} \/ status' = "committed" THEN "unsure" ELSE "never"
        /\ \A v \in Workers : saving'[v] # None => saving[v] # None
    BY <1>11, <1>13 DEF CommitMapping, BatchTypes
  <2>2. status' # "none"
    <3>1. saving[w] \in Saving /\ status # "none"
      BY <1>13 DEF CommitMapping, BatchTypes, OneCommit
    <3> QED
      BY <1>13, <3>1 DEF CommitMapping, Saving
  <2> QED
    BY <2>1, <2>2 DEF OneCommit
<1>9. CASE Restart
  <2>1. /\ Committing' = {} /\ status' = status /\ imported' \in {imported, "unsure"}
        /\ \A w \in Workers : saving'[w] = None
    BY <1>9, IdleSound DEF Restart, Committing
  <2>2. imported' # "unsure" => \A w \in Committing : req[w].at # "finish"
    BY <1>9 DEF Restart, Committing
  <2> QED
    BY <2>1, <2>2 DEF OneCommit
<1>10. CASE UNCHANGED vars
  BY <1>10 DEF vars, fieldVars, batchVars, OneCommit, Committing
<1> QED
  BY <1>1, <1>2, <1>3, <1>4, <1>6, <1>7, <1>8, <1>9, <1>10, <1>12, <1>13
     DEF Next, Wizard

-----------------------------------------------------------------------------
LEMMA InitIInv == Init => IInv
<1> SUFFICES ASSUME Init PROVE IInv
  OBVIOUS
<1>1. \A w \in Workers : req[w] = Idle
  BY DEF Init, FieldsInit
<1>2. FieldsTypeOK
  BY IdleSound, BagFacts DEF Init, FieldsInit, FieldsTypeOK
<1>3. TypeOK
  BY <1>2 DEF Init, TypeOK, Statuses
<1>4. OneCommit
  BY <1>1, IdleSound DEF Init, OneCommit, Committing
<1> QED
  BY <1>1, <1>3, <1>4, IdleSound DEF IInv

LEMMA IInvParts == IInv <=> Sane /\ BatchTypes /\ OneCommit
BY DEF IInv, TypeOK, Sane, BatchTypes

LEMMA NextIInv == IInv /\ [Next]_vars => IInv'
<1>1. (IInv <=> Sane /\ BatchTypes /\ OneCommit)'
  BY DEF IInv, TypeOK, Sane, BatchTypes
<1> QED
  BY <1>1, IInvParts, SaneNext, BatchTypesNext, OneCommitNext

LEMMA AlwaysIInv == Spec => []IInv
BY InitIInv, NextIInv, PTL DEF Spec

(* Registry, bags, batch and requests stay well formed. *)
THEOREM ImportTypes == Spec => []TypeOK
<1>1. IInv => TypeOK
  BY DEF IInv
<1> QED
  BY <1>1, AlwaysIInv, PTL

(* A saved mapping is applied once, and "committed" says that it was, as   *)
(* long as nothing disturbs the two commits of the request that does it,   *)
(* and no save that had loaded the batch before leaves it committed.       *)
THEOREM BatchAppliedOnce == Spec => []AppliedOnce
<1>1. IInv => AppliedOnce
  BY DEF IInv, OneCommit, AppliedOnce, TypeOK
<1> QED
  BY <1>1, AlwaysIInv, PTL

-----------------------------------------------------------------------------
(* What a step may do to a bag. *)

(* The steps that store the plan of a request, and the others that change  *)
(* what the registry or an employee holds.                                 *)
Stores(w) == WriteBags(w) /\ Merged(w) /\ field' = field
             /\ req[w].at \in {"commit", "apply"} /\ Commits(w, {"save", "wizard"})

LEMMA Writers ==
  ASSUME Sane, [Next]_vars
  PROVE  \/ UNCHANGED <<field, bag>>
            /\ \A e \in Emps : (place[e] = "absent") <=> (place'[e] = "absent")
         \/ \E w \in Workers : Stores(w) \/ DefineAndApply(w) \/ CommitField(w)
<1> DEFINE Calm == UNCHANGED <<field, bag>>
            /\ \A e \in Emps : (place[e] = "absent") <=> (place'[e] = "absent")
<1>1. ASSUME NEW w \in Workers, CommitSave(w)
      PROVE  Stores(w)
  <2>1. req'[w] = Idle
    BY <1>1 DEF CommitSave, Proceed
  <2> QED
    BY <1>1, <2>1, IdleSound DEF CommitSave, Stores, Commits
<1>2. ASSUME NEW w \in Workers, Apply(w)
      PROVE  Stores(w)
  <2>1. req'[w] = Finishing
    BY <1>2 DEF Apply, Proceed
  <2>2. req[w].op = "wizard"
    BY <1>2 DEF Apply, Sane, Sound, Shaped
  <2> QED
    BY <1>2, <2>1, <2>2, FinishingSound DEF Apply, Stores, Commits
<1>3. ASSUME NEW w \in Workers, NEW e \in Emps, Archive(w, e) \/ Restore(w, e)
      PROVE  Calm
  BY <1>3 DEF Archive, Restore, Sane, FieldsTypeOK
<1>4. UNCHANGED <<field, place, bag>> => Calm
  OBVIOUS
<1>5. ASSUME NEW w \in Workers, Saves(w) \/ Registry(w)
      PROVE  Calm \/ Stores(w) \/ CommitField(w)
  BY <1>1, <1>3, <1>4, <1>5
     DEF Saves, Registry, ApiCreate, FormCreate, ApiPatch, FormEdit, CsvImport, Save, Merge,
         CreateField, UpdateField, DeleteField, Change, CommitRefused
<1>6. ASSUME NEW w \in Workers, Wizard(w)
      PROVE  Calm \/ Stores(w) \/ DefineAndApply(w)
  BY <1>2, <1>4, <1>6
     DEF Wizard, BeginCommit, Classify, Finish, ImportRefused, Fail
<1> HIDE DEF Calm
<1>7. Calm \/ \E w \in Workers : Stores(w) \/ DefineAndApply(w) \/ CommitField(w)
  <2>1. ASSUME \/ \E m \in Mappings : Upload(m)
               \/ \E w \in Workers : Mapping(w) \/ CommitMapping(w) \/ FailSaving(w)
               \/ Restart \/ UNCHANGED vars
        PROVE  UNCHANGED <<field, place, bag>>
    BY <2>1 DEF Upload, Mapping, LoadMapping, LoadResolve, LoadBatch, CommitMapping, FailSaving,
           Restart, fieldVars, vars
  <2> QED
    BY <1>4, <1>5, <1>6, <2>1 DEF Next
<1> QED
  BY <1>7 DEF Calm

LEMMA StoresFacts ==
  ASSUME Sane, NEW w \in Workers, Stores(w), NEW e \in Emps
  PROVE  /\ e \notin Planned(w) => bag'[e] = bag[e] /\ place'[e] = place[e]
         /\ e \in Planned(w) => bag'[e] = req[w].plan[e]
                                /\ BagSound(req[w], e, field, place, bag)
<1>1. req[w] \in Request /\ Sound(req[w], field, place, bag)
  BY DEF Sane, FieldsTypeOK
<1>2. \A d \in req[w].fresh : req[w].plan[d] # None
  BY <1>1 DEF Sound, Shaped
<1>3. e \in Planned(w) <=> req[w].plan[e] # None
  BY DEF Planned
<1> QED
  BY <1>1, <1>2, <1>3 DEF Stores, Merged, WriteBags, Sound, PlanSound, Sane, FieldsTypeOK

LEMMA DefineFacts ==
  ASSUME Sane, NEW w \in Workers, DefineAndApply(w), NEW e \in Emps
  PROVE  /\ Commits(w, {"save", "wizard"})
         /\ field[req[w].key] = None
         /\ \A k \in Keys \ req[w].touched : field'[k] = field[k]
         /\ req[w].touched = {req[w].key}
         /\ \/ bag'[e] = bag[e] /\ place'[e] = place[e]
            \/ /\ Complete(field', bag'[e]) /\ Typed(field', bag'[e], bag[e])
               /\ \A k \in Keys \ req[w].touched : bag'[e][k] = bag[e][k]
<1> DEFINE r == req[w]
           f == [field EXCEPT ![r.key] = r.from]
           plan == WizardPlan(f, r.key)
<1>1. /\ r \in Request /\ r.at = "classify" /\ r.key \in Keys /\ r.op = "wizard"
      /\ r.touched = {r.key} /\ field[r.key] = None
  BY DEF Sane, FieldsTypeOK, Sound, DefineAndApply, Shaped
<1>2. f \in Table /\ field' = f
  BY <1>1 DEF Sane, FieldsTypeOK, Table, Request, DefineAndApply
<1>a. plan[e] # None =>
        /\ plan[e] \in Bag /\ Complete(f, Overlay(bag[e], plan[e]))
        /\ \A k \in Keys : plan[e][k] # None =>
             k = r.key /\ f[k] # None /\ plan[e][k].type = f[k].type
  <2>1. /\ plan \in [Emps -> Bag \cup {None}]
        /\ \A d \in Emps : plan[d] # None =>
             /\ Complete(f, Overlay(bag[d], plan[d]))
             /\ \A k \in Keys : plan[d][k] # None =>
                  k = r.key /\ f[k] # None /\ plan[d][k].type = f[k].type
    <3>1. bag \in [Emps -> Bag]
      BY DEF Sane, FieldsTypeOK
    <3> HIDE DEF f
    <3> QED
      BY <1>1, <1>2, <3>1, WizardPlanFacts
  <2> HIDE DEF f, plan
  <2> QED
    BY <2>1
<1>b. bag[e] \in Bag
  BY DEF Sane, FieldsTypeOK
<1>4. \A k \in Keys \ {r.key} : f[k] = field[k]
  BY DEF Sane, FieldsTypeOK
<1>5. Store(plan) /\ req'[w] = Finishing
  BY DEF DefineAndApply, Proceed
<1> HIDE DEF f, plan
<1>3. plan[e] # None =>
        /\ Complete(f, Overlay(bag[e], plan[e])) /\ Typed(f, Overlay(bag[e], plan[e]), bag[e])
        /\ \A k \in Keys \ {r.key} : Overlay(bag[e], plan[e])[k] = bag[e][k]
  BY <1>2, <1>a, <1>b, OverlayFacts, OverlayTyped
<1>6. /\ plan[e] # None => bag'[e] = Overlay(bag[e], plan[e])
      /\ plan[e] = None => bag'[e] = bag[e] /\ place'[e] = place[e]
  BY <1>5 DEF Store, Inserted
<1>7. Commits(w, {"save", "wizard"})
  BY <1>1, <1>5, FinishingSound DEF Commits
<1> QED
  BY <1>1, <1>2, <1>3, <1>4, <1>6, <1>7

(* Nothing is stored that lacks a required value, but under a change of    *)
(* the registry, or of the bag between the check of a row and its merge.   *)
THEOREM NothingSavedIncomplete == Spec => SavedComplete
<1>1. ASSUME IInv, [Next]_vars, NEW e \in Emps,
             bag'[e] # bag[e] \/ (e \notin Present /\ place'[e] # "absent")
      PROVE  \/ Complete(field', bag'[e])
             \/ \E w \in Workers : /\ Commits(w, {"save", "wizard"})
                                   /\ req[w].stale \/ e \in req[w].shifted
  <2>1. Sane /\ (e \in Present <=> place[e] # "absent")
    BY <1>1, IInvParts DEF Present
  <2>2. ASSUME NEW w \in Workers, Stores(w)
        PROVE  \/ Complete(field', bag'[e])
               \/ /\ Commits(w, {"save", "wizard"})
                  /\ req[w].stale \/ e \in req[w].shifted
    BY <1>1, <2>1, <2>2, StoresFacts DEF Stores, BagSound
  <2>3. ASSUME NEW w \in Workers, DefineAndApply(w)
        PROVE  Complete(field', bag'[e])
    BY <1>1, <2>1, <2>3, DefineFacts
  <2>4. ASSUME NEW w \in Workers, CommitField(w)
        PROVE  FALSE
    BY <1>1, <2>1, <2>4 DEF CommitField
  <2> QED
    BY <1>1, <2>1, <2>2, <2>3, <2>4, Writers
<1>2. IInv /\ [Next]_vars =>
        [\A e \in Emps : bag'[e] # bag[e] \/ (e \notin Present /\ place'[e] # "absent") =>
           \/ Complete(field', bag'[e])
           \/ \E w \in Workers : /\ Commits(w, {"save", "wizard"})
                                 /\ req[w].stale \/ e \in req[w].shifted]_fieldVars
  BY <1>1
<1> QED
  BY <1>2, AlwaysIInv, PTL DEF Spec, SavedComplete

(* A save leaves the values it is not about. *)
THEOREM SavesKeepOthers == Spec => OtherValuesKept
<1>1. ASSUME IInv, [Next]_vars, NEW e \in Emps, NEW k \in Keys,
             bag'[e][k] # bag[e][k]
      PROVE  \E w \in Workers : /\ Commits(w, {"save", "wizard"})
                                /\ k \in req[w].touched \/ e \in req[w].raced
  <2>1. Sane
    BY <1>1, IInvParts
  <2>2. ASSUME NEW w \in Workers, Stores(w)
        PROVE  /\ Commits(w, {"save", "wizard"})
               /\ k \in req[w].touched \/ e \in req[w].raced
    BY <1>1, <2>1, <2>2, StoresFacts DEF Stores, BagSound
  <2>3. ASSUME NEW w \in Workers, DefineAndApply(w)
        PROVE  Commits(w, {"save", "wizard"}) /\ k \in req[w].touched
    BY <1>1, <2>1, <2>3, DefineFacts
  <2>4. ASSUME NEW w \in Workers, CommitField(w)
        PROVE  FALSE
    BY <1>1, <2>4 DEF CommitField
  <2> QED
    BY <1>1, <2>1, <2>2, <2>3, <2>4, Writers
<1>2. IInv /\ [Next]_vars =>
        [\A e \in Emps, k \in Keys : bag'[e][k] # bag[e][k] =>
           \E w \in Workers : /\ Commits(w, {"save", "wizard"})
                              /\ k \in req[w].touched \/ e \in req[w].raced]_fieldVars
  BY <1>1
<1> QED
  BY <1>2, AlwaysIInv, PTL DEF Spec, OtherValuesKept

(* A value gets out of step with its field's type in three ways only. *)
THEOREM TypesKept == Spec => ValuesFollowTypes
<1> DEFINE Allowed(e, k) ==
       \/ field[k] = None
       \/ \E w \in Workers : /\ Commits(w, {"update"}) /\ req[w].key = k
                             /\ place[e] = "archived" \/ e \in req[w].raced
       \/ \E w \in Workers : /\ Commits(w, {"save", "wizard"})
                             /\ req[w].stale \/ e \in req[w].raced
<1>1. ASSUME IInv, [Next]_vars, NEW e \in Emps, NEW k \in Keys,
             Mistyped(e, k)', ~Mistyped(e, k), field[k] # None
      PROVE  Allowed(e, k)
  <2>1. Sane
    BY <1>1, IInvParts
  <2>2. /\ field'[k] # None /\ bag'[e][k] # None /\ bag'[e][k].type # field'[k].type
        /\ ~(bag[e][k] # None /\ bag[e][k].type # field[k].type)
    BY <1>1 DEF Mistyped
  <2>3. ASSUME NEW w \in Workers, Stores(w)
        PROVE  Commits(w, {"save", "wizard"}) /\ (req[w].stale \/ e \in req[w].raced)
    BY <2>1, <2>2, <2>3, <1>1, StoresFacts DEF Stores, BagSound
  <2>4. ASSUME NEW w \in Workers, DefineAndApply(w)
        PROVE  FALSE
    <3>1. k # req[w].key /\ k \notin req[w].touched
      BY <1>1, <2>1, <2>4, DefineFacts
    <3> QED
      BY <2>1, <2>2, <2>4, <3>1, DefineFacts
  <2>5. ASSUME NEW w \in Workers, CommitField(w)
        PROVE  /\ Commits(w, {"update"}) /\ req[w].key = k
               /\ place[e] = "archived" \/ e \in req[w].raced
    <3> DEFINE r == req[w]
    <3>1. r \in Request /\ Shaped(r) /\ RetypeSound(r, place, bag) /\ bag' = bag
      BY <2>1, <2>5 DEF Sane, FieldsTypeOK, Sound, CommitField
    <3>2. field' = [field EXCEPT ![r.key] = IF r.op = "update" THEN Edited(r) ELSE r.shape]
      BY <2>5 DEF CommitField
    <3>3. r.key = k
      BY <2>2, <3>1, <3>2 DEF Sane, FieldsTypeOK
    <3>4. r.op = "update" /\ field'[k] = Edited(r)
      BY <1>1, <2>1, <2>2, <2>5, <3>1, <3>2, <3>3
         DEF CommitField, Refused, Shaped, Sane, FieldsTypeOK
    <3>5. r.shape.type # r.from.type
      BY <1>1, <2>2, <3>1, <3>3, <3>4 DEF Edited
    <3>6. place[e] = "roster" => e \in r.raced
      BY <2>2, <3>1, <3>3, <3>4, <3>5 DEF RetypeSound
    <3>7. place[e] # "absent"
      BY <2>1, <2>2, <3>1, BagFacts DEF Sane, FieldsTypeOK
    <3>8. req'[w] = Idle
      BY <2>5 DEF CommitField, Proceed
    <3> QED
      BY <2>1, <2>5, <3>3, <3>4, <3>6, <3>7, <3>8, IdleSound
         DEF Commits, CommitField, Sane, FieldsTypeOK
  <2>6. ~(UNCHANGED <<field, bag>>)
    BY <2>2
  <2> QED
    BY <2>1, <2>3, <2>4, <2>5, <2>6, <1>1, Writers
<1>2. IInv /\ [Next]_vars =>
        [\A e \in Emps, k \in Keys : Mistyped(e, k)' /\ ~Mistyped(e, k) => Allowed(e, k)]_fieldVars
  BY <1>1
<1> QED
  BY <1>2, AlwaysIInv, PTL DEF Spec, ValuesFollowTypes
=============================================================================
