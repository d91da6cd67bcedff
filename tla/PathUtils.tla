------------------------------- MODULE PathUtils -------------------------------
(***************************************************************************)
(* Names of files and of their placeholders (fuse-core, path_utils.rs).    *)
(*                                                                         *)
(* A name is a base within so many layers of "." and ".icloud", each eight *)
(* characters long.  Base 0 is the empty string; the others are at least   *)
(* one character long, and their order is that of the names.               *)
(***************************************************************************)
EXTENDS Naturals

CONSTANT Bases

ASSUME BasesAssumption == Bases \subseteq Nat

FileName == {n \in [base: Bases, wraps: 0..1] : n.base = 0 => n.wraps > 0}

(* Of the lengths that a name can have only the smallest matters.          *)
Length(n) == (IF n.base = 0 THEN 0 ELSE 1) + 8 * n.wraps

NoName == [base |-> 0, wraps |-> 0]

(* Slip: the length of the two affixes is taken for a stub's.              *)
is_icloud_stub_AtLeast8(n) == n.wraps > 0 /\ Length(n) >= 8

is_icloud_stub(n) == n.wraps > 0 /\ Length(n) > 8

real_to_stub_name(n) == [n EXCEPT !.wraps = @ + 1]

stub_to_real_name(n) == IF is_icloud_stub(n) THEN [n EXCEPT !.wraps = @ - 1]
                                             ELSE NoName

(* The name under which clients see an entry of a directory.               *)
RealName(n) == IF is_icloud_stub(n) THEN stub_to_real_name(n) ELSE n

(* Slip: a placeholder is listed beside its file.                          *)
Listed_Both(entries, e) == TRUE

(* A listing shows no placeholder whose file is there, nor a stub of       *)
(* nothing.                                                                *)
Listed(entries, e) ==
  is_icloud_stub(e) => stub_to_real_name(e) \notin entries \cup {NoName}

(* The entry of a directory that a client's name stands for.               *)
resolve_child(entries, n) ==
  IF n \in entries THEN n
  ELSE IF real_to_stub_name(n) \in entries THEN real_to_stub_name(n)
  ELSE NoName

=============================================================================
