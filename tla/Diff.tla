-------------------------------- MODULE Diff --------------------------------
(* diffOutput of eval/eval.go (697-734) and Diff of eval/diff.go: the flags  *)
(* of a group are turned into rules, and the output is compared with the    *)
(* reference, token by token, each read a byte at a time.                   *)
(*                                                                          *)
(* A character stands for a class of bytes: space and newline, a letter in  *)
(* both cases, decimals, and the words that scanf reads as the numbers NaN  *)
(* and, with either sign, infinity.                                         *)
EXTENDS SequencesExt, Integers

CONSTANT Inputs     \* the comparisons: records of the files ref and out and the flags args

Chars == {"sp", "nl", "a", "A", "1", "2", "9", "nan", "inf", "-inf"}

ASSUME DiffAssumption == Inputs \subseteq [ref : Seq(Chars), out : Seq(Chars), args : Seq(STRING)]

VARIABLES
    text,       \* the two files
    given,      \* the flags, and...
    args,       \* ...those of them still to be read
    rules,      \* DiffArgs
    sc,         \* the two scanners, with the token each is at
    pc,         \* "open", "flags", then what Scan is doing, then "done"
    turn,       \* what is scanned: a token of ref, of out, or the end of out
    result      \* what diffOutput returns

vars == <<text, given, args, rules, sc, pc, turn, result>>
scanVars == <<text, given, args, rules>>

Files == {"ref", "out"}
isSpace == [c \in Chars |-> c \in {"sp", "nl"}]
Lower(c) == IF c = "A" THEN "a" ELSE c
Digits == [c \in {"1", "2", "9"} |-> CASE c = "1" -> 1 [] c = "2" -> 2 [] c = "9" -> 9]

(* The flags, and those that take a tolerance, here in tenths. *)
Known == {"case_sensitive", "space_change_sensitive"}
Tolerances == {"float_tolerance", "float_relative_tolerance", "float_absolute_tolerance"}
Tolerance == [v \in {"0.5", "1"} |-> IF v = "1" THEN 10 ELSE 5]

Scanner == [at |-> 0, line |-> 1, col |-> 1, token |-> <<>>, start |-> <<1, 1>>]

Init ==
    /\ \E i \in Inputs :
        /\ text = [f \in Files |-> i[f]]
        /\ given = i.args
    /\ args = given
    /\ rules = [floats |-> FALSE, rel |-> 0, abs |-> 0, case |-> FALSE, space |-> FALSE]
    /\ sc = [f \in Files |-> Scanner]
    /\ pc = "open"
    /\ turn = "ref"
    /\ result = "none"

Return(r) ==
    /\ pc' = "done"
    /\ result' = r

Open ==
    /\ pc = "open"
    /\ \/ pc' = "flags" /\ UNCHANGED result
       \/ Return("error")
    /\ UNCHANGED <<scanVars, sc, turn>>

ReadFails ==
    /\ pc \in {"skip", "take"}
    /\ Return("error")
    /\ UNCHANGED <<scanVars, sc, turn>>

-----------------------------------------------------------------------------
(* The flags. *)

Switch ==
    /\ pc = "flags"
    /\ args # <<>> /\ Head(args) \in Known
    /\ rules' = IF Head(args) = "case_sensitive" THEN [rules EXCEPT !.case = TRUE]
                ELSE [rules EXCEPT !.space = TRUE]
    /\ args' = Tail(args)
    /\ UNCHANGED <<text, given, sc, pc, turn, result>>

(* A value that is not a number is an error. *)
TakesValue == Len(args) > 1 /\ Head(args) \in Tolerances

(* The first value given counts. *)
SetTolerancesOnce(v) ==
    [rules EXCEPT !.floats = TRUE,
        !.rel = IF args[1] # "float_absolute_tolerance" /\ @ = 0 THEN v ELSE @,
        !.abs = IF args[1] # "float_relative_tolerance" /\ @ = 0 THEN v ELSE @]

SetTolerances(v) ==
    [rules EXCEPT !.floats = TRUE,
        !.rel = IF args[1] # "float_absolute_tolerance" THEN v ELSE @,
        !.abs = IF args[1] # "float_relative_tolerance" THEN v ELSE @]

(* The index is not moved on. *)
FloatFlagStay ==
    /\ pc = "flags"
    /\ TakesValue
    /\ IF args[2] \in DOMAIN Tolerance
       THEN rules' = SetTolerances(Tolerance[args[2]]) /\ UNCHANGED <<pc, result>>
       ELSE Return("error") /\ UNCHANGED rules
    /\ UNCHANGED <<text, given, args, sc, turn>>

FloatFlag ==
    /\ pc = "flags"
    /\ TakesValue
    /\ IF args[2] \in DOMAIN Tolerance
       THEN /\ rules' = SetTolerances(Tolerance[args[2]])
            /\ args' = SubSeq(args, 3, Len(args))
            /\ UNCHANGED <<pc, result>>
       ELSE Return("error") /\ UNCHANGED <<rules, args>>
    /\ UNCHANGED <<text, given, sc, turn>>

(* Any other flag is logged, and looked at again. *)
UnknownFlag ==
    /\ pc = "flags"
    /\ args # <<>> /\ Head(args) \notin Known /\ ~TakesValue
    /\ UNCHANGED vars

FlagsDone ==
    /\ pc = "flags"
    /\ args = <<>>
    /\ pc' = "skip"
    /\ UNCHANGED <<scanVars, sc, turn, result>>

-----------------------------------------------------------------------------
(* Scan. *)

File == IF turn = "ref" THEN "ref" ELSE "out"
S == sc[File]
AtEnd == S.at = Len(text[File])
Next1 == text[File][S.at + 1]

(* A newline ends its line after it has been counted as a column. *)
EatLate(s) == [s EXCEPT !.at = @ + 1, !.col = IF s.at > 0 /\ text[File][s.at] = "nl" THEN 1 ELSE @ + 1,
                        !.line = IF Next1 = "nl" THEN @ + 1 ELSE @]

(* eatByte *)
Eat(s) ==
    IF Next1 = "nl" THEN [s EXCEPT !.at = @ + 1, !.line = @ + 1, !.col = 1]
    ELSE [s EXCEPT !.at = @ + 1, !.col = @ + 1]

(* At the end of a file: of the reference, or of the output before, or      *)
(* with, the reference.                                                     *)
EndOfFile ==
    CASE turn = "ref" -> turn' = "end" /\ pc' = "skip" /\ UNCHANGED result
      [] turn = "out" -> Return("differ") /\ UNCHANGED turn
      [] turn = "end" -> Return("match") /\ UNCHANGED turn

GotToken ==
    CASE turn = "ref" -> turn' = "out" /\ pc' = "skip" /\ UNCHANGED result
      [] turn = "out" -> pc' = "compare" /\ UNCHANGED <<turn, result>>
      [] turn = "end" -> Return("differ") /\ UNCHANGED turn

SkipSpace ==
    /\ pc = "skip"
    /\ ~rules.space /\ ~AtEnd /\ isSpace[Next1]
    /\ sc' = [sc EXCEPT ![File] = Eat(@)]
    /\ UNCHANGED <<scanVars, pc, turn, result>>

SkipDone ==
    /\ pc = "skip"
    /\ \/ rules.space /\ pc' = "take" /\ UNCHANGED <<turn, result>>
       \/ ~rules.space /\ AtEnd /\ EndOfFile
       \/ ~rules.space /\ ~AtEnd /\ ~isSpace[Next1] /\ pc' = "take" /\ UNCHANGED <<turn, result>>
    /\ sc' = [sc EXCEPT ![File].token = <<>>, ![File].start = <<S.line, S.col>>]
    /\ UNCHANGED scanVars

(* Nothing is eaten after a space, and a space only where spaces count and  *)
(* begin a token.                                                           *)
TakesNext == ~isSpace[Next1] \/ (rules.space /\ S.token = <<>>)

CanTake == ~AtEnd /\ TakesNext

TakeByte ==
    /\ pc = "take"
    /\ CanTake
    /\ sc' = [sc EXCEPT ![File] = [Eat(S) EXCEPT !.token = Append(@, Next1)]]
    /\ IF isSpace[Next1] THEN GotToken ELSE UNCHANGED <<pc, turn, result>>
    /\ UNCHANGED scanVars

(* The token ends; a space before any byte of it is logger.Fatal. *)
EndToken ==
    /\ pc = "take"
    /\ ~CanTake
    /\ IF S.token # <<>> THEN GotToken
       ELSE IF AtEnd THEN EndOfFile
       ELSE pc' = "fatal" /\ UNCHANGED <<turn, result>>
    /\ UNCHANGED <<scanVars, sc>>

-----------------------------------------------------------------------------
(* matchToken: what scanf finds of a token that is a number as a whole. *)

Infinite(t) == t \in {<<"inf">>, <<"-inf">>}
IsNumber(t) == t = <<"nan">> \/ Infinite(t) \/ ToSet(t) \subseteq DOMAIN Digits
Value(t) == FoldLeft(LAMBDA n, c : 10 * n + Digits[c], 0, t)
Distance(x, y) == IF x > y THEN x - y ELSE y - x

(* The difference of an infinity to any other number is infinite, which is  *)
(* at most an infinity times a positive tolerance and more than any finite  *)
(* number; what is computed of NaN, of two equal infinities, and of         *)
(* infinity times 0 is NaN, and no comparison with NaN holds.               *)
MatchInfinite(ref, out) == Infinite(ref) /\ ref # out /\ rules.rel > 0

(* Both tolerances have to be kept. *)
MatchFloatBoth(ref, out) ==
    LET diff == Distance(Value(ref), Value(out))
    IN  /\ <<"nan">> \notin {ref, out}
        /\ \/ MatchInfinite(ref, out)
           \/ /\ ~Infinite(ref) /\ ~Infinite(out)
              /\ 10 * diff <= rules.abs /\ 10 * diff <= rules.rel * Value(ref)

MatchFloat(ref, out) ==
    LET diff == Distance(Value(ref), Value(out))
    IN  /\ <<"nan">> \notin {ref, out}
        /\ \/ MatchInfinite(ref, out)
           \/ /\ ~Infinite(ref) /\ ~Infinite(out)
              /\ 10 * diff <= rules.abs \/ 10 * diff <= rules.rel * Value(ref)

EqualFold(s, t) == Len(s) = Len(t) /\ \A i \in DOMAIN s : Lower(s[i]) = Lower(t[i])

matchToken(ref, out) ==
    IF rules.floats /\ IsNumber(ref) THEN IsNumber(out) /\ MatchFloat(ref, out)
    ELSE EqualFold(ref, out) /\ (rules.case => ref = out)

Compare ==
    /\ pc = "compare"
    /\ IF matchToken(sc["ref"].token, sc["out"].token)
       THEN turn' = "ref" /\ pc' = "skip" /\ UNCHANGED result
       ELSE Return("differ") /\ UNCHANGED turn
    /\ UNCHANGED <<scanVars, sc>>

Over == pc \in {"done", "fatal"} /\ UNCHANGED vars

DiffNext ==
    \/ Open \/ Switch \/ FloatFlag \/ UnknownFlag \/ FlagsDone
    \/ SkipSpace \/ SkipDone \/ TakeByte \/ EndToken \/ Compare

Next == DiffNext \/ ReadFails \/ Over

Spec == Init /\ [][Next]_vars
LiveSpec == Spec /\ WF_vars(DiffNext)

-----------------------------------------------------------------------------
(* The variables have their types, and "Peeked space after empty token!?"   *)
(* (diff.go 164) is never logged.                                           *)
TypeOK ==
    /\ pc \in {"open", "flags", "skip", "take", "compare", "done"}
    /\ turn \in {"ref", "out", "end"}
    /\ result \in {"none", "match", "differ", "error"}
    /\ result # "none" <=> pc = "done"
    /\ \A f \in Files : sc[f].at \in 0 .. Len(text[f]) /\ sc[f].token \in Seq(Chars)

(* The flags that stand for themselves, not as the value of another. *)
IsFlag[i \in 1 .. Len(given)] == i = 1 \/ ~(IsFlag[i - 1] /\ given[i - 1] \in Tolerances)

(* Whatever the order of the flags: a switch counts wherever it is given,   *)
(* and of the flags that set a tolerance the last one (eval.go 710-728).    *)
RulesMeanFlags ==
    LET Flags(set) == {i \in 1 .. Len(given) : IsFlag[i] /\ given[i] \in set}
        LastValue(set) == IF Flags(set) = {} THEN 0 ELSE Tolerance[given[Max(Flags(set)) + 1]]
    IN  pc \in {"skip", "take", "compare"} =>
            /\ rules.case <=> Flags({"case_sensitive"}) # {}
            /\ rules.space <=> Flags({"space_change_sensitive"}) # {}
            /\ rules.floats <=> Flags(Tolerances) # {}
            /\ rules.rel = LastValue(Tolerances \ {"float_absolute_tolerance"})
            /\ rules.abs = LastValue(Tolerances \ {"float_relative_tolerance"})

(* While files are compared, the state and the rules are those asked for.   *)
Inv == TypeOK /\ RulesMeanFlags

(* The tokens of a text: maximal runs without a space and, where changes of *)
(* space count, every single space.                                         *)
Starts(t, space) ==
    {i \in DOMAIN t : IF isSpace[t[i]] THEN space ELSE i = 1 \/ isSpace[t[i - 1]]}

TokenAt(t, i) ==
    IF isSpace[t[i]] THEN <<t[i]>>
    ELSE SubSeq(t, i, Max({j \in i .. Len(t) : \A k \in i .. j : ~isSpace[t[k]]}))

(* Those that begin at or before a place, and where the k-th begins. *)
Upto(t, space, i) == {j \in Starts(t, space) : j <= i}
Nth(t, space, k) == CHOOSE i \in Starts(t, space) : Cardinality(Upto(t, space, i)) = k

Tokens(t, space) == [k \in 1 .. Cardinality(Starts(t, space)) |-> TokenAt(t, Nth(t, space, k))]

(* Tokens match as numbers, if the flags say so and the reference is one,   *)
(* or as words, whatever their case. A finite number is matched by those    *)
(* within one of the tolerances. An infinite one is not matched by itself,  *)
(* but by every other number, NaN excepted, if there is a relative          *)
(* tolerance: so the floats compare (diff.go 78-80), whatever "within       *)
(* relative error" (diff.go 25) may mean of infinities.                     *)
Same(r, o) ==
    \/ /\ rules.floats /\ IsNumber(r) /\ IsNumber(o) /\ <<"nan">> \notin {r, o}
       /\ IF Infinite(r) THEN o # r /\ rules.rel > 0
          ELSE /\ ~Infinite(o)
               /\ \E d \in {rules.abs, rules.rel * Value(r)} : 10 * Distance(Value(r), Value(o)) <= d
    \/ ~(rules.floats /\ IsNumber(r)) /\ EqualFold(r, o) /\ (r = o \/ ~rules.case)

(* Diff accepts exactly the outputs whose tokens match the reference's, one *)
(* by one, in the sense of Same: it skips none, compares none twice, and    *)
(* sees the end of both (diff.go 38-69).                                    *)
MatchMeansSame ==
    result \in {"match", "differ"} =>
        LET r == Tokens(text["ref"], rules.space)
            o == Tokens(text["out"], rules.space)
        IN  result = "match" <=> Len(r) = Len(o) /\ \A k \in DOMAIN r : Same(r[k], o[k])

(* The line and column reported for a token are where it begins in its      *)
(* file, across newlines, and the token is what stands there (diff.go 137). *)
PositionsAreReal ==
    \A f \in Files : (pc = "compare" \/ result = "differ") /\ sc[f].token # <<>> =>
        LET begin == sc[f].at - Len(sc[f].token)
            newlines == {i \in 1 .. begin : text[f][i] = "nl"}
        IN  /\ SubSeq(text[f], begin + 1, sc[f].at) = sc[f].token
            /\ sc[f].start = <<1 + Cardinality(newlines), 1 + begin - Max(newlines \cup {0})>>

(* diffOutput returns, also when a flag is not known: the warning of        *)
(* eval.go 730, "unknown default output validator flags", rejects nothing.  *)
Returns == <>(pc = "done")

(* diffOutput returns whatever files and flags it is given, provided that   *)
(* it knows every flag and every tolerance has its value: the loops of      *)
(* eval.go 708 and diff.go 140 and 161 come to their ends.                  *)
ReturnsIfKnown ==
    (\A i \in 1 .. Len(given) :
        IsFlag[i] => given[i] \in Known \/ (given[i] \in Tolerances /\ i < Len(given)))
    => Returns
=============================================================================
