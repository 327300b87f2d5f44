-------------------------------- MODULE Stdio --------------------------------
(***************************************************************************)
(* printf of libc/src/stdio.c, for the integer, character and string       *)
(* directives (what %n stores is left out).  All numbers go through        *)
(* __int_str, the unsigned ones too.                                       *)
(***************************************************************************)
EXTENDS Format

(* The directive whose % is at i, read as the kernel's printf reads it.    *)
DirectiveAt(f, i, args) == Directive(f, i + 1, args)

IsUnsigned(d) == d.specifier \in {"u", "x", "X"}

(* Mutant: short arguments are not cut to their width.                     *)
IntegerUncut(d, raw) == IF IsUnsigned(d) THEN raw ELSE Signed(raw, Bits(d.length))

(* The argument, and then its conversion to intmax_t.                      *)
Integer(d, raw) ==
  IF IsUnsigned(d) THEN Signed(Unsigned(raw, Bits(d.length)), MaxBits)
  ELSE Signed(raw, Bits(d.length))

(* One turn of the loop: what is written, and what is left.                *)
Formatted(d) ==
  LET rest == Tail(d.args)
  IN  CASE d.specifier \in {"u", "x", "X", "d", "i"} /\ d.length # "L" ->
             [out |-> Prefix(d) \o int_str(Integer(d, Head(d.args)), d), next |-> d.next, args |-> rest]
        [] d.specifier = "c" -> [out |-> <<Head(d.args)>>, next |-> d.next, args |-> rest]
        [] d.specifier = "s" -> [out |-> Head(d.args), next |-> d.next, args |-> rest]
        [] d.specifier = "n" /\ d.length # "L" -> [out |-> <<>>, next |-> d.next, args |-> rest]
        [] OTHER -> [out |-> Prefix(d), next |-> d.next, args |-> d.args]

Turn(f, i, args) ==
  IF f[i] = "%" THEN Formatted(DirectiveAt(f, i, args))
  ELSE [out |-> <<f[i]>>, next |-> i + 1, args |-> args]

RECURSIVE VprintfFrom(_, _, _)
VprintfFrom(f, i, args) ==
  IF i > Len(f) THEN <<>>
  ELSE LET t == Turn(f, i, args) IN t.out \o VprintfFrom(f, t.next, t.args)

vprintf(f, args) == VprintfFrom(f, 1, args)

---------------------------------------------------------------------------
(* A number is printed as what was passed, except an unsigned one that     *)
(* does not fit intmax_t, the least intmax_t, which cannot be negated, and *)
(* where zeros are put behind it.                                          *)
PrintsNumber(f, raw) ==
  LET d == Directive(f, 2, <<raw>>)
      value == IF IsUnsigned(d) THEN Unsigned(raw, Bits(d.length)) ELSE Signed(raw, Bits(d.length))
  IN  value \in 1 - 2^(MaxBits - 1) .. 2^(MaxBits - 1) - 1 /\ ~ZerosBehind(d) =>
        Shows(vprintf(f, <<raw>>), d, value)
=============================================================================
