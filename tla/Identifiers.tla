----------------------------- MODULE Identifiers -----------------------------
(***************************************************************************)
(* The check digits of French identifiers: core/validators.py, which the   *)
(* schemas of the master data and of the settings call, and               *)
(* modules/ocr/extractors/validators.py, which scores what was read from a *)
(* scan.  An identifier is the sequence of its digits (letters of an IBAN  *)
(* as A = 10 ... Z = 35), a formatted one what is left of it without       *)
(* blanks.  A slip is what typing gets wrong: one digit, or two neighbours *)
(* swapped.                                                                *)
(***************************************************************************)
EXTENDS Integers, Sequences

CONSTANTS Sirens, Sirets, Nirs, Ibans,      \* identifiers in use, all valid
          Untyped

VARIABLE typed      \* [kind, correct, digits]: an identifier as it arrives, or Untyped

Digits == 0..9

-----------------------------------------------------------------------------

Doubled(d) == IF 2 * d > 9 THEN 2 * d - 9 ELSE 2 * d

Total(digits) ==
    LET sum[i \in 0..Len(digits)] == IF i = 0 THEN 0 ELSE sum[i - 1] + digits[i]
    IN  sum[Len(digits)]

\* _luhn_check: every second digit counts double, from the right.
LuhnCheck(digits) ==
    Total([i \in 1..Len(digits) |->
            IF (Len(digits) - i) % 2 = 1 THEN Doubled(digits[i]) ELSE digits[i]]) % 10 = 0

ValidateSiren(x) == Len(x) = 9 /\ LuhnCheck(x)

ValidateSiret(x) == Len(x) = 14 /\ ValidateSiren(SubSeq(x, 1, 9)) /\ LuhnCheck(x)

\* int(...) % 97 of a number too long for TLC's integers, part by part; a part is
\* a digit, or the two digits of a letter.
Mod97(parts) ==
    LET rest[i \in 0..Len(parts)] ==
            IF i = 0 THEN 0
            ELSE (rest[i - 1] * (IF parts[i] > 9 THEN 100 ELSE 10) + parts[i]) % 97
    IN  rest[Len(parts)]

\* Mistake ruled out by SlipsAreCaught: the format of a VAT number is enough.
TvaFormat(x) == Len(x) = 11

\* FR, two digits of key, and the SIREN.
ValidateTva(x) ==
    /\ Len(x) = 11
    /\ 10 * x[1] + x[2] = (12 + 3 * Mod97(SubSeq(x, 3, 11))) % 97

TvaOf(siren) ==
    LET key == (12 + 3 * Mod97(siren)) % 97 IN <<key \div 10, key % 10>> \o siren

\* 13 digits (2A and 2B of Corsica already as 19 and 18) and the key.
ValidateNir(x) == /\ Len(x) = 15
                  /\ 10 * x[14] + x[15] = 97 - Mod97(SubSeq(x, 1, 13))

\* Two letters, two digits, and then either; the first four move to the end.
Rearranged(x) == [i \in 1..Len(x) |-> IF i <= Len(x) - 4 THEN x[i + 4] ELSE x[i - (Len(x) - 4)]]

ValidateIban(x) == /\ Len(x) > 4
                   /\ {x[1], x[2]} \intersect Digits = {} /\ {x[3], x[4]} \subseteq Digits
                   /\ Mod97(Rearranged(x)) = 1

Valid(kind, x) == CASE kind = "siren" -> ValidateSiren(x)
                    [] kind = "siret" -> ValidateSiret(x)
                    [] kind = "tva"   -> ValidateTva(x)
                    [] kind = "nir"   -> ValidateNir(x)
                    [] kind = "iban"  -> ValidateIban(x)

\* A letter of an IBAN counts from 10 to 35, and no IBAN is longer than 34.
ASSUME IdentifiersAssumption ==
    /\ Sirens \subseteq Seq(Digits) /\ \A x \in Sirens : ValidateSiren(x)
    /\ Sirets \subseteq Seq(Digits) /\ \A x \in Sirets : ValidateSiret(x)
    /\ Nirs \subseteq Seq(Digits) /\ \A x \in Nirs : ValidateNir(x)
    /\ Ibans \subseteq Seq(0..35) /\ \A x \in Ibans : ValidateIban(x) /\ Len(x) <= 34

-----------------------------------------------------------------------------
(* The extractors                                                            *)

\* validate_siren_luhn and validate_siret_luhn double every second digit from the
\* left, whatever the length.
LuhnFromLeft(x) ==
    Total([i \in 1..Len(x) |-> IF i % 2 = 0 THEN Doubled(x[i]) ELSE x[i]]) % 10 = 0

ScannedSirenIsValid(x) == Len(x) = 9 /\ LuhnFromLeft(x)
ScannedSiretIsValid(x) == Len(x) = 14 /\ LuhnFromLeft(x)

-----------------------------------------------------------------------------

InUse == [kind : {"siren"}, digits : Sirens] \union [kind : {"siret"}, digits : Sirets]
            \union [kind : {"nir"}, digits : Nirs] \union [kind : {"iban"}, digits : Ibans]
            \union [kind : {"tva"}, digits : {TvaOf(x) : x \in Sirens}]

Wrong(x, i, d) == [x EXCEPT ![i] = d]
Swapped(x, i)  == [x EXCEPT ![i] = x[i + 1], ![i + 1] = x[i]]

IdentifiersInit == typed = Untyped

TypeIdentifier ==
    \E x \in InUse :
        typed' = [kind |-> x.kind, correct |-> x.digits, digits |-> x.digits]

Slip ==
    /\ typed # Untyped /\ typed.digits = typed.correct
    /\ \/ \E i \in DOMAIN typed.digits, d \in Digits :
            /\ typed.digits[i] \in Digits
            /\ typed' = [typed EXCEPT !.digits = Wrong(@, i, d)]
       \/ \E i \in 1..(Len(typed.digits) - 1) :
            typed' = [typed EXCEPT !.digits = Swapped(@, i)]

IdentifiersNext == TypeIdentifier \/ Slip

IdentifiersSpec == IdentifiersInit /\ [][IdentifiersNext]_typed

-----------------------------------------------------------------------------

IdentifiersTypeOK == typed # Untyped => Len(typed.digits) = Len(typed.correct)

\* 0 and 9 swapped: the one slip that Luhn's digit cannot show.
Exchanged09 == \E i \in 1..(Len(typed.correct) - 1) :
    /\ {typed.correct[i], typed.correct[i + 1]} = {0, 9}
    /\ typed.digits = Swapped(typed.correct, i)

\* B1, M2 and X3 swapped in an IBAN: 1B, 2M and 3X stand for the same digits.
ExchangedTwins == \E i \in 1..(Len(typed.correct) - 1) :
    /\ \E d \in 1..3 : {typed.correct[i], typed.correct[i + 1]} = {d, 11 * d}
    /\ typed.digits = Swapped(typed.correct, i)

\* No slip in a SIREN, SIRET, VAT number, NIR or IBAN passes its check, except
\* 09 for 90 in a SIREN or SIRET, and B1 for 1B and the like in an IBAN; what is
\* right passes (validate_siren, ...).
SlipsAreCaught ==
    typed # Untyped =>
        IF typed.digits = typed.correct THEN Valid(typed.kind, typed.digits)
        ELSE \/ ~ Valid(typed.kind, typed.digits)
             \/ typed.kind \in {"siren", "siret"} /\ Exchanged09
             \/ typed.kind = "iban" /\ ExchangedTwins

\* "Validate SIRET (14 digits) using Luhn algorithm." (validate_siret_luhn): the
\* extractors take the SIRETs that the rest of the program takes.
\* The code does not keep this.
ExtractorsAgree ==
    typed # Untyped /\ typed.kind = "siret" /\ ValidateSiret(typed.digits)
        => ScannedSiretIsValid(typed.digits)

=============================================================================
