----------------------------- MODULE ErrorText -----------------------------
(***************************************************************************)
(* class EtworkError (lib/errors.cpp): a code of severity, area and option *)
(* in one integer, error_, and its text, text_: a C string on the heap     *)
(* that c_str() makes when it is first asked for, and that every object is *)
(* to own for itself.                                                      *)
(*                                                                         *)
(* Objects are places on the stack or in other objects, which the program  *)
(* constructs, copies, assigns and destroys as it likes.  Blocks are what  *)
(* strdup() hands out and free() takes back.                               *)
(***************************************************************************)
CONSTANTS
  Objects,    \* places for EtworkErrors
  Blocks,     \* blocks of the heap
  Options,    \* values of enum ErrorOption, as strings
  Custom,     \* a text of the caller's, for setText()
  NoText

ASSUME TextAssumption ==
  /\ NoText \notin Blocks /\ NoText \notin Options /\ NoText # Custom
  /\ "EO_no_error" \in Options
  /\ NoText # "illegal option code"

VARIABLES
  live,       \* objects that exist
  error_,     \* the code of each object; of its parts only the option is kept
  text_,      \* the block of each object, or NoText
  heap,       \* the text in each block; NoText if the block is free
  given,      \* history: the text setText() gave the object, for this code
  spoilt      \* history: objects that kept their text when an integer was
              \* assigned to them, or whose text was read after its release

textVars == <<live, error_, text_, heap, given, spoilt>>

TextInit ==
  /\ live = {} /\ spoilt = {}
  /\ error_ = [o \in Objects |-> "EO_no_error"]
  /\ text_ = [o \in Objects |-> NoText]
  /\ given = [o \in Objects |-> NoText]
  /\ heap = [b \in Blocks |-> NoText]

-----------------------------------------------------------------------------
\* option_str(): a name for each option but one.
option_str(option) ==
  IF option = "EO_internal_error" THEN "illegal option code" ELSE option

Texts == {option_str(option) : option \in Options} \cup {Custom}

\* The heap after free( b ), which does nothing for NoText.
Freed(b) == [c \in Blocks |-> IF c = b THEN NoText ELSE heap[c]]

\* text_ = strdup( text ), on the heap h.
StrDup(o, h, text) ==
  \E b \in Blocks :
    /\ h[b] = NoText
    /\ heap' = [h EXCEPT ![b] = text]
    /\ text_' = [text_ EXCEPT ![o] = b]

Marked(o, bad) == IF bad THEN spoilt \cup {o} ELSE spoilt \ {o}

\* EtworkError() and EtworkError( severity, area, option ).
Construct(o, option) ==
  /\ o \notin live
  /\ live' = live \cup {o}
  /\ error_' = [error_ EXCEPT ![o] = option]
  /\ text_' = [text_ EXCEPT ![o] = NoText]
  /\ given' = [given EXCEPT ![o] = NoText]
  /\ UNCHANGED <<heap, spoilt>>

\* The copy constructor, for the memory of o and the heap h; a version that
\* shares the text.
CopyShared(o, p, h) ==
  /\ error_' = [error_ EXCEPT ![o] = error_[p]]
  /\ heap' = h
  /\ text_' = [text_ EXCEPT ![o] = text_[p]]
  /\ given' = [given EXCEPT ![o] = given[p]]
  /\ spoilt' = Marked(o, p \in spoilt)

Copy(o, p, h) ==
  /\ error_' = [error_ EXCEPT ![o] = error_[p]]
  /\ IF text_[p] = NoText
     THEN heap' = h /\ text_' = [text_ EXCEPT ![o] = NoText]
     ELSE StrDup(o, h, heap[text_[p]])
  /\ given' = [given EXCEPT ![o] = given[p]]
  /\ spoilt' = Marked(o, p \in spoilt)

CopyConstruct(o, p) ==
  /\ o \notin live /\ p \in live
  /\ live' = live \cup {o}
  /\ Copy(o, p, heap)

\* What is left in the memory of an error that is gone is not looked at again.
Destroy(o) ==
  /\ o \in live
  /\ live' = live \ {o} /\ spoilt' = spoilt \ {o}
  /\ heap' = Freed(text_[o])
  /\ error_' = [error_ EXCEPT ![o] = "EO_no_error"]
  /\ text_' = [text_ EXCEPT ![o] = NoText]
  /\ given' = [given EXCEPT ![o] = NoText]

\* operator=( EtworkError const & ): the text is freed and the object is
\* constructed again as a copy.
Assign(o, p) ==
  /\ o \in live /\ p \in live \ {o}
  /\ Copy(o, p, Freed(text_[o]))
  /\ UNCHANGED live

\* The same when p is the object itself: strdup() reads the text that has just
\* been freed, and finds any text there.
AssignSelf(o) ==
  /\ o \in live
  /\ IF text_[o] = NoText THEN UNCHANGED <<text_, heap, spoilt>>
     ELSE /\ \E text \in Texts : StrDup(o, Freed(text_[o]), text)
          /\ spoilt' = spoilt \cup {o}
  /\ UNCHANGED <<live, error_, given>>

\* operator=( int ): the code alone.
AssignInt(o, option) ==
  /\ o \in live
  /\ error_' = [error_ EXCEPT ![o] = option]
  /\ given' = [given EXCEPT ![o] = NoText]
  /\ spoilt' = Marked(o, text_[o] # NoText)
  /\ UNCHANGED <<live, text_, heap>>

\* c_str(): formats the code if there is no text; a version that formats
\* always.
CStrAnew(o) ==
  /\ o \in live
  /\ StrDup(o, Freed(text_[o]), option_str(error_[o]))
  /\ UNCHANGED <<live, error_, given, spoilt>>

CStr(o) ==
  /\ o \in live
  /\ text_[o] = NoText
  /\ StrDup(o, heap, option_str(error_[o]))
  /\ UNCHANGED <<live, error_, given, spoilt>>

\* setText(), with a text of the caller's or with none.
SetText(o, text) ==
  /\ o \in live
  /\ IF text = NoText
     THEN heap' = Freed(text_[o]) /\ text_' = [text_ EXCEPT ![o] = NoText]
     ELSE StrDup(o, Freed(text_[o]), text)
  /\ given' = [given EXCEPT ![o] = text]
  /\ spoilt' = spoilt \ {o}
  /\ UNCHANGED <<live, error_>>

\* setText( p->c_str() ): the caller passes the text of another object, or of
\* this one, which is freed before it is copied.
SetTextOf(o, p) ==
  /\ o \in live /\ p \in live /\ text_[p] # NoText
  /\ \E text \in IF p = o THEN Texts ELSE {heap[text_[p]]} :
       StrDup(o, Freed(text_[o]), text)
  /\ given' = [given EXCEPT ![o] = heap[text_[p]]]
  /\ spoilt' = Marked(o, p = o)
  /\ UNCHANGED <<live, error_>>

TextNext ==
  \E o \in Objects :
    \/ \E option \in Options : Construct(o, option) \/ AssignInt(o, option)
    \/ Destroy(o) \/ AssignSelf(o) \/ CStr(o)
    \/ \E p \in Objects : CopyConstruct(o, p) \/ Assign(o, p) \/ SetTextOf(o, p)
    \/ \E text \in {Custom, NoText} : SetText(o, text)

TextSpec == TextInit /\ [][TextNext]_textVars

-----------------------------------------------------------------------------
(* Properties *)

\* Each variable keeps its kind, and the text of an object is a string: what
\* its text_ points to has not been freed behind its back.
TextsTyped ==
  /\ live \subseteq Objects /\ spoilt \subseteq live
  /\ error_ \in [Objects -> Options]
  /\ text_ \in [Objects -> Blocks \cup {NoText}]
  /\ heap \in [Blocks -> Texts \cup {NoText}]
  /\ given \in [Objects -> Texts \cup {NoText}]
  /\ \A o \in live : text_[o] # NoText => heap[text_[o]] \in Texts

OwnersOf(b) == {o \in live : text_[o] = b}

\* Every block in use belongs to exactly one object that exists, and no object
\* has a block that is free: nothing leaks, and free() never gets a block twice,
\* in whatever order errors are copied, assigned, given texts and destroyed.
OwnedOnce ==
  \A b \in Blocks :
    /\ \A o, p \in OwnersOf(b) : o = p
    /\ heap[b] # NoText <=> OwnersOf(b) # {}

\* What c_str() is to return: the text that was set, or that of the code.
Expected(o) == IF given[o] # NoText THEN given[o] ELSE option_str(error_[o])

SaysExpected(o) == text_[o] # NoText => heap[text_[o]] = Expected(o)

\* An object whose text was made for another code, or read after its release,
\* is the only one that may say something else than expected, together with its
\* copies.
TextKept == \A o \in live \ spoilt : SaysExpected(o)
=============================================================================
