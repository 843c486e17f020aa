-------------------------------- MODULE Cll1 --------------------------------
(***************************************************************************)
(* The list macros of cll1-0.6.2.h, on which every component is built.     *)
(* A C list is a sequence whose first element is the list head; a `K' key  *)
(* and an `EXP' macro are one operator Exp(b, a) over two elements: the    *)
(* element already in the list, then the new one.                          *)
(***************************************************************************)
EXTENDS Integers, Sequences, FiniteSetsExt, SequencesExt

(* push(A,B): the new element becomes the head. *)
Push(a, B) == <<a>> \o B

(* if_exists(A,B,C): the place of the first element that satisfies C, in   *)
(* list order, and 0 when the walk ends on NULL.                           *)
IfExists(B, C(_)) == SelectInSeq(B, C)

(* for_selected(A,B,C): the elements that satisfy C, in list order.        *)
Selected(B, C(_)) ==
  FoldLeft(LAMBDA selected, a : IF C(a) THEN Append(selected, a) ELSE selected, <<>>, B)

(* The place where insert(A,B,EXP,K) stops: the first element for which    *)
(* EXP holds, or the end of the list.                                      *)
InsertPlace(a, B, Exp(_, _)) ==
  CHOOSE p \in 1..(Len(B) + 1) :
    /\ p = Len(B) + 1 \/ Exp(B[p], a)
    /\ \A q \in 1..(p - 1) : ~Exp(B[q], a)

(* insert(A,B,EXP,K): A enters before that element, ties stay behind it.   *)
Insert(a, B, Exp(_, _)) == InsertAt(B, InsertPlace(a, B, Exp), a)

(* sort(A,B,EXP,K): the list is emptied and its elements inserted again    *)
(* from the old head on.  (The macro reads A->_next before it looks at A:  *)
(* callers must not sort an empty list.)                                   *)
Sort(B, Exp(_, _)) ==
  FoldLeft(LAMBDA sorted, a : Insert(a, sorted, Exp), <<>>, B)
=============================================================================
