----------------------------- MODULE MCStrutils -----------------------------
(* Small instances of Strutils for TLC. *)
EXTENDS Strutils

BothKinds == {"number", "tokens"}
\* Digits of the bases 2, 10 and 16, and a letter that is a digit and a prefix.
SmallAlphabet ==
    "number" :> {"-", "+", " ", "0", "1", "x", "b", "k", "m", "i"} @@ "tokens" :> {"a", ",", "'", "\"", Backslash}
SmallMaxLen == "number" :> 5 @@ "tokens" :> 6
Values == "0" :> 0 @@ "1" :> 1 @@ "b" :> 11 @@ "i" :> 18 @@ "k" :> 20 @@ "m" :> 22 @@ "x" :> 33
BasePrefixes == <<"0", "x">> :> 16 @@ <<"b">> :> 2
KiloMega == <<"k", "m">>
Comma == {","}
Quotes == {"'", "\""}
OneToThree == 1..3
UpToTwo == 0..2
=============================================================================
