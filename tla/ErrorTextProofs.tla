--------------------------- MODULE ErrorTextProofs ---------------------------
(***************************************************************************)
(* Proofs about ErrorText for any number of errors and blocks, and any     *)
(* options.  Each action takes at most one block away from one object and  *)
(* gives it a free one; this keeps the ownership of blocks one to one.     *)
(* What the texts say follows when it is known that an object without a    *)
(* text has not been given one.                                            *)
(***************************************************************************)
EXTENDS ErrorText, TLAPS

\* OwnedOnce, without the sets.
Owned ==
  /\ \A o, p \in live : text_[o] # NoText /\ text_[o] = text_[p] => o = p
  /\ \A o \in live : text_[o] # NoText => heap[text_[o]] # NoText
  /\ \A b \in Blocks : heap[b] # NoText => \E o \in live : text_[o] = b

\* A text the object has been given is still there.
GivenThere == \A o \in live : given[o] # NoText => text_[o] # NoText

Inv == TextsTyped /\ Owned /\ TextKept /\ GivenThere

-----------------------------------------------------------------------------
\* Names of options are texts, and a text is never NoText.
LEMMA TextsNotNull == NoText \notin Texts
  BY TextAssumption DEF Texts, option_str

LEMMA OptionText ==
  ASSUME NEW option \in Options PROVE option_str(option) \in Texts
  BY DEF Texts

LEMMA InitInv == TextInit => Inv
  BY TextAssumption, TextsNotNull
  DEF TextInit, Inv, TextsTyped, Owned, TextKept, GivenThere, SaysExpected

\* What the object o may get instead of its text, when the others keep theirs:
\* no block, or a block that was free or its own, with a text in it.
Gets(o, alive) ==
  /\ live' = alive
  /\ \A p \in Objects \ {o} : text_'[p] = text_[p]
  /\ text_' \in [Objects -> Blocks \cup {NoText}]
  /\ heap' \in [Blocks -> Texts \cup {NoText}]
  /\ \A b \in Blocks :
       IF b = text_'[o] /\ o \in alive
       THEN heap'[b] # NoText /\ (heap[b] = NoText \/ (o \in live /\ b = text_[o]))
       ELSE heap'[b] = IF o \in live /\ b = text_[o] THEN NoText ELSE heap[b]

LEMMA GetsKeepsOwned ==
  ASSUME TextsTyped, Owned, NEW o \in Objects, NEW alive,
         alive \in {live \cup {o}, live \ {o}}, Gets(o, alive)
  PROVE  Owned'
<1> DEFINE t == text_'[o]
<1>1. \A p \in live' \ {o} : p \in live /\ text_'[p] = text_[p]
  BY DEF Gets, TextsTyped
<1>2. \A p \in live' \ {o} : o \in live' /\ t # NoText => text_'[p] # t
  <2> SUFFICES ASSUME NEW p \in live' \ {o}, o \in live', t # NoText, text_'[p] = t
               PROVE  FALSE
    OBVIOUS
  <2>1. p \in live /\ text_[p] = t /\ t \in Blocks
    BY <1>1 DEF Gets, TextsTyped
  <2>2. heap[t] # NoText
    BY <2>1 DEF Owned
  <2>3. o \in live /\ t = text_[o]
    BY <2>1, <2>2 DEF Gets
  <2> QED
    BY <2>1, <2>3 DEF Owned
<1>3. \A p, q \in live' : text_'[p] # NoText /\ text_'[p] = text_'[q] => p = q
  BY <1>1, <1>2 DEF Owned
<1>4. ASSUME NEW p \in live', text_'[p] # NoText
      PROVE  heap'[text_'[p]] # NoText
  <2>1. text_'[p] \in Blocks
    BY <1>4 DEF Gets, TextsTyped
  <2>2. CASE p = o
    BY <2>1, <2>2, <1>4 DEF Gets
  <2>3. CASE p # o
    <3>1. p \in live /\ text_'[p] = text_[p] /\ heap[text_[p]] # NoText
      BY <2>3, <1>1, <1>4 DEF Owned
    <3>2. ~(o \in live /\ text_[p] = text_[o])
      BY <2>3, <3>1, <1>4 DEF Owned
    <3> QED
      BY <2>1, <3>1, <3>2 DEF Gets
  <2> QED
    BY <2>2, <2>3
<1>5. ASSUME NEW b \in Blocks, heap'[b] # NoText
      PROVE  \E p \in live' : text_'[p] = b
  <2>1. CASE b = t /\ o \in live'
    BY <2>1
  <2>2. CASE ~(b = t /\ o \in live')
    <3>1. heap[b] # NoText /\ ~(o \in live /\ b = text_[o])
      BY <2>2, <1>5 DEF Gets
    <3>2. PICK p \in live : text_[p] = b
      BY <3>1 DEF Owned
    <3>3. p # o /\ p \in live' /\ text_'[p] = b
      BY <3>1, <3>2 DEF Gets, TextsTyped
    <3> QED
      BY <3>3
  <2> QED
    BY <2>1, <2>2
<1> QED
  BY <1>3, <1>4, <1>5 DEF Owned

\* The rest of what an action does to o, or o to itself.
OnlyHere(o) ==
  /\ error_' \in [Objects -> Options]
  /\ given' \in [Objects -> Texts \cup {NoText}]
  /\ spoilt' \subseteq live'
  /\ \A p \in Objects \ {o} :
       /\ error_'[p] = error_[p] /\ given'[p] = given[p]
       /\ p \in spoilt' <=> p \in spoilt
  /\ o \in live' =>
       /\ given'[o] # NoText => text_'[o] # NoText
       /\ o \notin spoilt' => SaysExpected(o)'

LEMMA StepKeepsInv ==
  ASSUME Inv, NEW o \in Objects, NEW alive,
         alive \in {live \cup {o}, live \ {o}}, Gets(o, alive), OnlyHere(o)
  PROVE  Inv'
<1>1. Owned'
  BY GetsKeepsOwned DEF Inv
<1>2. TextsTyped'
  <2>1. live' \subseteq Objects /\ text_' \in [Objects -> Blocks \cup {NoText}]
        /\ heap' \in [Blocks -> Texts \cup {NoText}]
    BY DEF Gets, Inv, TextsTyped
  <2>2. \A p \in live' : text_'[p] # NoText => heap'[text_'[p]] \in Texts
    BY <1>1, <2>1 DEF Owned
  <2> QED
    BY <2>1, <2>2 DEF OnlyHere, TextsTyped
<1>3. ASSUME NEW p \in live' \ {o}
      PROVE  /\ p \in live /\ text_'[p] = text_[p]
             /\ text_[p] # NoText => heap'[text_[p]] = heap[text_[p]]
  <2>1. p \in live /\ p \in Objects /\ text_'[p] = text_[p]
    BY DEF Gets, Inv, TextsTyped
  <2>2. ASSUME text_[p] # NoText
        PROVE  heap'[text_[p]] = heap[text_[p]]
    <3>1. text_[p] \in Blocks /\ heap[text_[p]] # NoText
      BY <2>1, <2>2 DEF Inv, TextsTyped, Owned
    <3>2. ~(o \in live /\ text_[p] = text_[o])
      BY <2>1, <2>2 DEF Inv, Owned
    <3> QED
      BY <3>1, <3>2 DEF Gets
  <2> QED
    BY <2>1, <2>2
<1>4. TextKept'
  <2>1. ASSUME NEW p \in live' \ spoilt', p # o
        PROVE  SaysExpected(p)'
    <3>1. p \in live \ spoilt /\ p \in Objects
      BY <1>3, <2>1 DEF OnlyHere, Inv, TextsTyped
    <3>2. SaysExpected(p)
      BY <3>1 DEF Inv, TextKept
    <3> QED
      BY <1>3, <2>1, <3>1, <3>2 DEF SaysExpected, Expected, OnlyHere
  <2> QED
    BY <2>1 DEF TextKept, OnlyHere
<1>5. GivenThere'
  <2>1. ASSUME NEW p \in live', p # o, given'[p] # NoText
        PROVE  text_'[p] # NoText
    BY <1>3, <2>1 DEF OnlyHere, Inv, TextsTyped, GivenThere
  <2> QED
    BY <2>1 DEF GivenThere, OnlyHere
<1> QED
  BY <1>1, <1>2, <1>4, <1>5 DEF Inv

\* strdup() into the text of o, after the old one, if o had one, was freed.
LEMMA StrDupGets ==
  ASSUME TextsTyped, NEW o \in Objects, NEW h, NEW text \in Texts, StrDup(o, h, text),
         live' = live \cup {o},
         \/ o \in live /\ h = Freed(text_[o])
         \/ h = heap /\ (o \in live => text_[o] = NoText)
  PROVE  /\ Gets(o, live \cup {o})
         /\ text_'[o] \in Blocks /\ heap'[text_'[o]] = text
<1>1. h \in [Blocks -> Texts \cup {NoText}]
      /\ \A c \in Blocks : h[c] = IF o \in live /\ c = text_[o] THEN NoText ELSE heap[c]
  BY TextAssumption DEF Freed, TextsTyped
<1>2. PICK b \in Blocks : /\ h[b] = NoText
                          /\ heap' = [h EXCEPT ![b] = text]
                          /\ text_' = [text_ EXCEPT ![o] = b]
  BY DEF StrDup
<1>3. text_'[o] = b /\ heap'[b] = text /\ text # NoText
  BY <1>1, <1>2, TextsNotNull DEF TextsTyped
<1>4. text_' \in [Objects -> Blocks \cup {NoText}]
      /\ heap' \in [Blocks -> Texts \cup {NoText}]
      /\ \A p \in Objects \ {o} : text_'[p] = text_[p]
  BY <1>1, <1>2 DEF TextsTyped
<1>5. \A c \in Blocks : c # b => heap'[c] = h[c]
  BY <1>1, <1>2
<1> QED
  BY <1>1, <1>2, <1>3, <1>4, <1>5 DEF Gets

\* free() of the text of o, if it had one; o is left without one, or is gone.
LEMMA FreedGets ==
  ASSUME TextsTyped, NEW o \in Objects, NEW h, NEW alive, live' = alive, heap' = h,
         \/ o \in live /\ h = Freed(text_[o])
         \/ h = heap /\ (o \in live => text_[o] = NoText),
         \/ text_' = [text_ EXCEPT ![o] = NoText]
         \/ text_' = text_ /\ o \notin alive
  PROVE  Gets(o, alive)
<1>1. heap' \in [Blocks -> Texts \cup {NoText}]
      /\ \A c \in Blocks : heap'[c] = IF o \in live /\ c = text_[o] THEN NoText ELSE heap[c]
  BY TextAssumption DEF Freed, TextsTyped
<1>2. text_' \in [Objects -> Blocks \cup {NoText}]
      /\ (\A p \in Objects \ {o} : text_'[p] = text_[p])
      /\ (o \in alive => text_'[o] = NoText)
  BY DEF TextsTyped
<1>3. \A c \in Blocks : ~(c = text_'[o] /\ o \in alive)
  BY <1>2, TextAssumption
<1> QED
  BY <1>1, <1>2, <1>3 DEF Gets

-----------------------------------------------------------------------------
(* The actions. *)

LEMMA ConstructInv ==
  ASSUME Inv, NEW o \in Objects, NEW option \in Options, Construct(o, option)
  PROVE  Inv'
<1>1. Gets(o, live \cup {o})
  BY FreedGets DEF Inv, Construct
<1>2. OnlyHere(o)
  BY <1>1 DEF Inv, TextsTyped, Construct, OnlyHere, SaysExpected
<1> QED
  BY <1>1, <1>2, StepKeepsInv

\* Copying, into new memory or over an object whose text is freed first.
LEMMA CopyInv ==
  ASSUME Inv, NEW o \in Objects, NEW p \in live, p # o, NEW h, Copy(o, p, h),
         live' = live \cup {o},
         \/ o \in live /\ h = Freed(text_[o])
         \/ o \notin live /\ h = heap
  PROVE  Inv'
<1> USE DEF Inv
<1>1. p \in Objects
  BY DEF TextsTyped
<1>2. CASE text_[p] = NoText
  <2>1. Gets(o, live \cup {o}) /\ text_'[o] = NoText
    BY <1>2, FreedGets DEF Copy, TextsTyped
  <2>2. OnlyHere(o)
    BY <1>1, <1>2, <2>1 DEF TextsTyped, Copy, OnlyHere, SaysExpected, Marked, GivenThere
  <2> QED
    BY <2>1, <2>2, StepKeepsInv
<1>3. CASE text_[p] # NoText
  <2>1. heap[text_[p]] \in Texts /\ StrDup(o, h, heap[text_[p]])
    BY <1>3 DEF TextsTyped, Copy
  <2>2. /\ Gets(o, live \cup {o})
        /\ text_'[o] \in Blocks /\ heap'[text_'[o]] = heap[text_[p]]
    BY <2>1, StrDupGets
  <2>3. text_'[o] # NoText
    BY <2>2, TextAssumption
  <2>4. p \notin spoilt => heap[text_[p]] = Expected(p)
    BY <1>3 DEF TextKept, SaysExpected
  <2>5. error_'[o] = error_[p] /\ given'[o] = given[p]
    BY <1>1 DEF Copy, TextsTyped
  <2>6. o \notin spoilt' => SaysExpected(o)'
    BY <2>2, <2>4, <2>5 DEF Copy, Marked, SaysExpected, Expected
  <2>7. OnlyHere(o)
    BY <1>1, <2>3, <2>6 DEF TextsTyped, Copy, OnlyHere, Marked
  <2> QED
    BY <2>2, <2>7, StepKeepsInv
<1> QED
  BY <1>2, <1>3

LEMMA DestroyInv ==
  ASSUME Inv, NEW o \in Objects, Destroy(o)
  PROVE  Inv'
<1>1. Gets(o, live \ {o})
  BY FreedGets DEF Inv, Destroy
<1>2. OnlyHere(o)
  BY TextAssumption DEF Inv, TextsTyped, Destroy, OnlyHere
<1> QED
  BY <1>1, <1>2, StepKeepsInv

\* What a live object may do to itself: get a text, or do without.  In each
\* case it says what is expected, or is spoilt.
LEMMA NewTextInv ==
  ASSUME Inv, NEW o \in live, NEW h, NEW text \in Texts, StrDup(o, h, text),
         \/ h = Freed(text_[o])
         \/ h = heap /\ text_[o] = NoText,
         live' = live, error_' = error_, NEW g \in Texts \cup {NoText},
         given' = [given EXCEPT ![o] = g],
         \/ spoilt' = spoilt \cup {o}
         \/ /\ text = IF g # NoText THEN g ELSE option_str(error_[o])
            /\ spoilt' = spoilt \ {o}
  PROVE  Inv'
<1> USE DEF Inv
<1>1. o \in Objects /\ live' = live \cup {o}
  BY DEF TextsTyped
<1>2. Gets(o, live \cup {o}) /\ text_'[o] \in Blocks /\ heap'[text_'[o]] = text
  BY <1>1, StrDupGets
<1>3. given'[o] = g /\ text_'[o] # NoText
  BY <1>1, <1>2, TextAssumption DEF TextsTyped
<1>4. o \notin spoilt' => SaysExpected(o)'
  BY <1>2, <1>3 DEF SaysExpected, Expected
<1>5. OnlyHere(o)
  BY <1>1, <1>3, <1>4 DEF TextsTyped, OnlyHere
<1> QED
  BY <1>1, <1>2, <1>5, StepKeepsInv

LEMMA AssignSelfInv ==
  ASSUME Inv, NEW o \in Objects, AssignSelf(o)
  PROVE  Inv'
<1>1. CASE text_[o] = NoText
  BY <1>1 DEF AssignSelf, Inv, TextsTyped, Owned, TextKept, GivenThere, SaysExpected, Expected
<1>2. CASE text_[o] # NoText
  <2>1. PICK text \in Texts : StrDup(o, Freed(text_[o]), text)
    BY <1>2 DEF AssignSelf
  <2>2. given' = [given EXCEPT ![o] = given[o]] /\ given[o] \in Texts \cup {NoText}
    BY DEF AssignSelf, Inv, TextsTyped
  <2> QED
    BY <1>2, <2>1, <2>2, NewTextInv DEF AssignSelf
<1> QED
  BY <1>1, <1>2

LEMMA CStrInv ==
  ASSUME Inv, NEW o \in Objects, CStr(o)
  PROVE  Inv'
<1> USE DEF Inv
<1>1. given[o] = NoText /\ o \in live
  BY DEF CStr, GivenThere
<1>2. error_[o] \in Options /\ given' = [given EXCEPT ![o] = NoText]
  BY <1>1 DEF CStr, TextsTyped
<1>3. option_str(error_[o]) \in Texts
  BY <1>2, OptionText
<1>4. CASE o \in spoilt
  <2>1. spoilt' = spoilt \cup {o}
    BY <1>4 DEF CStr
  <2> QED
    BY <1>1, <1>2, <1>3, <2>1, NewTextInv DEF CStr
<1>5. CASE o \notin spoilt
  <2>1. spoilt' = spoilt \ {o}
    BY <1>5 DEF CStr
  <2> QED
    BY <1>1, <1>2, <1>3, <2>1, NewTextInv DEF CStr
<1> QED
  BY <1>4, <1>5

LEMMA AssignIntInv ==
  ASSUME Inv, NEW o \in Objects, NEW option \in Options, AssignInt(o, option)
  PROVE  Inv'
<1>1. o \in live /\ live' = live /\ text_' = text_ /\ heap' = heap
  BY DEF AssignInt
<1>2. TextsTyped'
  BY <1>1 DEF AssignInt, Inv, TextsTyped, Marked
<1>3. Owned'
  BY <1>1 DEF Inv, Owned
<1>4. \A p \in live \ {o} : /\ error_'[p] = error_[p] /\ given'[p] = given[p]
                            /\ p \in spoilt' <=> p \in spoilt
  BY DEF AssignInt, Inv, TextsTyped, Marked
<1>5. TextKept'
  <2>1. ASSUME NEW p \in live \ spoilt', p # o
        PROVE  SaysExpected(p)'
    BY <1>1, <1>4, <2>1 DEF Inv, TextKept, SaysExpected, Expected
  <2>2. ASSUME o \notin spoilt'
        PROVE  SaysExpected(o)'
    BY <1>1, <2>2 DEF AssignInt, Marked, SaysExpected
  <2> QED
    BY <1>1, <2>1, <2>2 DEF TextKept
<1>6. GivenThere'
  BY <1>1, <1>4 DEF Inv, GivenThere, AssignInt, TextsTyped
<1> QED
  BY <1>2, <1>3, <1>5, <1>6 DEF Inv

LEMMA SetTextInv ==
  ASSUME Inv, NEW o \in Objects, NEW text \in {Custom, NoText}, SetText(o, text)
  PROVE  Inv'
<1>1. o \in live
  BY DEF SetText
<1>2. CASE text = NoText
  <2>1. Gets(o, live) /\ text_'[o] = NoText
    BY <1>1, <1>2, FreedGets DEF Inv, SetText, TextsTyped
  <2>2. OnlyHere(o)
    BY <1>2, <2>1 DEF Inv, TextsTyped, SetText, OnlyHere, SaysExpected
  <2>3. live = live \cup {o}
    BY <1>1
  <2> QED
    BY <2>1, <2>2, <2>3, StepKeepsInv
<1>3. CASE text # NoText
  <2>1. text \in Texts /\ StrDup(o, Freed(text_[o]), text)
    BY <1>3 DEF SetText, Texts
  <2> QED
    BY <1>1, <1>3, <2>1, NewTextInv DEF SetText
<1> QED
  BY <1>2, <1>3

LEMMA SetTextOfInv ==
  ASSUME Inv, NEW o \in Objects, NEW p \in Objects, SetTextOf(o, p)
  PROVE  Inv'
<1>1. /\ o \in live /\ p \in live
      /\ heap[text_[p]] \in Texts /\ heap[text_[p]] # NoText
  BY TextsNotNull DEF SetTextOf, Inv, TextsTyped
<1>2. PICK text \in IF p = o THEN Texts ELSE {heap[text_[p]]} :
        StrDup(o, Freed(text_[o]), text)
  BY DEF SetTextOf
<1>3. CASE p = o
  BY <1>1, <1>2, <1>3, NewTextInv DEF SetTextOf, Marked
<1>4. CASE p # o
  BY <1>1, <1>2, <1>4, NewTextInv DEF SetTextOf, Marked
<1> QED
  BY <1>3, <1>4

LEMMA NextInv == Inv /\ [TextNext]_textVars => Inv'
<1> SUFFICES ASSUME Inv, [TextNext]_textVars PROVE Inv'
  OBVIOUS
<1>1. ASSUME UNCHANGED textVars
      PROVE  Inv'
  BY <1>1 DEF textVars, Inv, TextsTyped, Owned, TextKept, GivenThere, SaysExpected, Expected
<1>2. ASSUME NEW o \in Objects, NEW p \in Objects, CopyConstruct(o, p)
      PROVE  Inv'
  BY <1>2, CopyInv DEF CopyConstruct
<1>3. ASSUME NEW o \in Objects, NEW p \in Objects, Assign(o, p)
      PROVE  Inv'
  <2>1. live' = live \cup {o}
    BY <1>3 DEF Assign
  <2> QED
    BY <1>3, <2>1, CopyInv DEF Assign
<1> QED
  BY <1>1, <1>2, <1>3, ConstructInv, AssignIntInv, DestroyInv, AssignSelfInv, CStrInv,
     SetTextOfInv, SetTextInv
  DEF TextNext

LEMMA Invariance == TextSpec => []Inv
  BY InitInv, NextInv, PTL DEF TextSpec

-----------------------------------------------------------------------------
\* Every error has a code, and a text of its own or none, for any objects.
THEOREM TypeCorrect == TextSpec => []TextsTyped
<1>1. Inv => TextsTyped
  BY DEF Inv
<1> QED
  BY <1>1, Invariance, PTL

\* Texts are freed exactly once, however errors are copied, assigned and
\* destroyed (~EtworkError(), operator=, setText()).
THEOREM OwnedOnceHolds == TextSpec => []OwnedOnce
<1>1. Inv => OwnedOnce
  <2> SUFFICES ASSUME Inv, NEW b \in Blocks
               PROVE  /\ \A o, p \in OwnersOf(b) : o = p
                      /\ heap[b] # NoText <=> OwnersOf(b) # {}
    BY DEF OwnedOnce
  <2>1. b # NoText
    BY TextAssumption
  <2> QED
    BY <2>1 DEF Inv, Owned, OwnersOf
<1> QED
  BY <1>1, Invariance, PTL

\* c_str() says what was set or what the code means, but for the errors that
\* operator=( int ) or a use of freed memory has spoilt, and their copies.
THEOREM TextKeptHolds == TextSpec => []TextKept
<1>1. Inv => TextKept
  BY DEF Inv
<1> QED
  BY <1>1, Invariance, PTL
=============================================================================
