------------------------------ MODULE Bitfield ------------------------------
(***************************************************************************)
(* util/bitfield.hpp: a vector of bits whose operator[] hands out a        *)
(* reference, though a bit has no address.  The reference is to a buffer   *)
(* for one bit, last_mod_value, which stands for the bit last_mod_index;   *)
(* the next access through operator[] writes it back.  The const           *)
(* operator[] reads the bits without writing the buffer back.              *)
(*                                                                         *)
(* Bits count from 1 (the code: from 0); last_mod_index is NoIndex when    *)
(* nothing is pending (the code: the length).                              *)
(***************************************************************************)
EXTENDS Integers, SequencesExt

NoIndex == 0

(* The memory of a new bitfield is not initialised.                        *)
NewBitfields(n) ==
    [bits : [1 .. n -> BOOLEAN], last_mod_index : {NoIndex},
     last_mod_value : {FALSE}]

MutantUpdate(b) == [b EXCEPT !.last_mod_index = NoIndex]

(* update                                                                  *)
Update(b) ==
    IF b.last_mod_index = NoIndex THEN b
    ELSE [b EXCEPT !.bits[b.last_mod_index] = b.last_mod_value,
                   !.last_mod_index = NoIndex]

(* operator[]: b once a reference to the bit i has been handed out.        *)
Access(b, i) ==
    [bits |-> Update(b).bits, last_mod_index |-> i,
     last_mod_value |-> Update(b).bits[i]]

(* b[i] = value                                                            *)
Assign(b, i, value) == [Access(b, i) EXCEPT !.last_mod_value = value]

MutantGet(b, i) == b.bits[i]

(* operator[] const                                                        *)
Get(b, i) == IF i = b.last_mod_index THEN b.last_mod_value ELSE b.bits[i]

(* What a reader sees.                                                     *)
ValueOf(b) == [i \in DOMAIN b.bits |-> Get(b, i)]

(* A loop that assigns one bit after the other.                            *)
AssignAll(b, values) ==
    FoldLeft(LAMBDA c, i : Assign(c, i, values[i]), b,
             [i \in DOMAIN values |-> i])
=============================================================================
