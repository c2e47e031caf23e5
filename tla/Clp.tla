-------------------------------- MODULE Clp ---------------------------------
(***************************************************************************)
(* The command line parser of the server, the client and the tests         *)
(* (src/clp.c, src/clp.h).                                                 *)
(*                                                                         *)
(* A text is a sequence of characters; clp is the parser (Clp_Parser and   *)
(* Clp_Internal together) and every function that takes a Clp_Parser is an *)
(* operator from parsers to parsers.  The wording of error messages, UTF-8 *)
(* and memory exhaustion are left out.                                     *)
(***************************************************************************)
EXTENDS Integers, Sequences

CONSTANTS
  Scripts,     \* bounds: each has the option table (a sequence of Clp_Option), what
               \* the characters introduce (oclass), the arguments (argv), how many
               \* calls are made (max), whether any call is (free) and with which
               \* character classes (chars) and, if only Clp_Next is called, the
               \* answers that are wanted
  ListItems,   \* the names of a string list type, a sequence of texts
  OclassSize   \* Clp_OclassSize

VARIABLES
  clp,         \* the parser
  clpSaved,    \* a saved state and what Clp_Next would have answered then
  clpOut,      \* what Clp_Next has answered so far
  script       \* the member of Scripts

clpVars == <<clp, clpSaved, clpOut, script>>

NullText == <<"NUL">>
At(s, i) == IF i <= Len(s) THEN s[i] ELSE "NUL"
From(s, i) == SubSeq(s, i, Len(s))
StartsWith(s, t) == Len(t) <= Len(s) /\ SubSeq(s, 1, Len(t)) = t
NoPrefix == <<"n", "o", "-">>

-----------------------------------------------------------------------------
(* Option tables.  Clp_SetOptions turns each option into an internal one:  *)
(* a name that starts with "no-" makes it a negated option.                *)
Intern(o) ==
  LET no == StartsWith(o.long, NoPrefix) IN
  [name |-> IF no THEN From(o.long, 4) ELSE o.long,
   short |-> o.short, id |-> o.id, type |-> o.type,
   pos |-> ~no, neg |-> no \/ o.negate,
   mandatory |-> o.type # "none" /\ ~o.optional,
   optional |-> o.type # "none" /\ o.optional,
   pref |-> o.preferred]

Massaged(options) == [i \in DOMAIN options |-> Intern(options[i])]

(* finish_string_list.                                                     *)
ItemTable ==
  [i \in DOMAIN ListItems |-> [name |-> ListItems[i], short |-> "NUL", id |-> i, type |-> "none",
                           pos |-> TRUE, neg |-> FALSE, mandatory |-> FALSE,
                           optional |-> FALSE, pref |-> FALSE]]

HasLong(o) == o.name # <<>>
HasShort(o) == o.short # "NUL"
Sided(o, negated) == IF negated THEN o.neg ELSE o.pos

(* min_different_chars and strncmp.                                        *)
SamePrefix(s, t, n) ==
  \A i \in 1..n : At(s, i) = At(t, i) \/ \E j \in 1..(i - 1) : j > Len(s) /\ j > Len(t)
MinDifferentChars(s, t) ==
  LET same == CHOOSE n \in 0..Len(s) :
                /\ \A i \in 1..n : At(s, i) = At(t, i)
                /\ n = Len(s) \/ At(s, n + 1) # At(t, n + 1)
  IN  IF same = Len(s) THEN same ELSE same + 1

(* compare_options and calculate_lmm: how many characters tell option i    *)
(* from every other one.                                                   *)
MutLmm(tab, i, negated) == 1
Lmm(tab, i, negated) ==
  LET differ(j, lmm) ==
        /\ tab[i].id # tab[j].id /\ HasLong(tab[i]) /\ HasLong(tab[j])
        /\ Sided(tab[i], negated) /\ Sided(tab[j], negated)
        /\ SamePrefix(tab[i].name, tab[j].name, lmm)
        /\ tab[i].pref => ~StartsWith(tab[j].name, tab[i].name)
      upto[j \in 0..Len(tab)] ==
        IF j = 0 THEN 1
        ELSE IF differ(j, upto[j - 1]) THEN MinDifferentChars(tab[i].name, tab[j].name)
        ELSE upto[j - 1]
  IN  upto[Len(tab)]

(* lmmpos_short, lmmneg_short: the first character is a short option too.  *)
LmmShort(tab, i, negated) ==
  \E j \in DOMAIN tab :
    /\ tab[i].id # tab[j].id /\ HasLong(tab[i]) /\ HasShort(tab[j]) /\ ~tab[i].pref
    /\ Sided(tab[i], negated) /\ Sided(tab[j], negated)
    /\ At(tab[i].name, 1) = tab[j].short

(* argcmp: 0 for no match, -1 for too short a match, else its length.      *)
ArgCmp(ref, arg, min, fewerDashes) ==
  LET eq == {i \in 1..Len(arg) : arg[i] = "="}
      len == IF eq = {} THEN Len(arg) ELSE (CHOOSE i \in eq : \A j \in eq : i <= j) - 1
      match[i \in 1..(Len(ref) + 2), j \in 1..(len + 1)] ==
        CASE i <= Len(ref) /\ j <= len /\ At(ref, i) = At(arg, j) -> match[i + 1, j + 1]
          [] /\ fewerDashes /\ j <= len /\ i < Len(ref)
             /\ ref[i] = "-" /\ ref[i + 1] = arg[j] -> match[i + 1, j]
          [] OTHER -> <<i, j>>
      end == match[1, 1]
  IN  IF end[2] <= len THEN 0 ELSE IF end[1] - 1 < min THEN -1 ELSE len

(* find_prefix_opt: the first option that matches, or 0 and the ambiguous  *)
(* ones; without any, once more with dashes left out.                      *)
MinMatch(tab, i, negated, couldBeShort) ==
  LET lmm == Lmm(tab, i, negated) IN
  IF couldBeShort /\ LmmShort(tab, i, negated) /\ lmm <= 1 THEN 2 ELSE lmm

Comparison(tab, arg, negated, couldBeShort, fewerDashes) ==
  [i \in {i \in DOMAIN tab : HasLong(tab[i]) /\ Sided(tab[i], negated)} |->
     ArgCmp(tab[i].name, arg, MinMatch(tab, i, negated, couldBeShort), fewerDashes)]

Smallest(S) == CHOOSE i \in S : \A j \in S : i <= j
Hits(cmp) == {i \in DOMAIN cmp : cmp[i] > 0}
Partial(cmp) == {i \in DOMAIN cmp : cmp[i] < 0}
OfHits(hits, otherwise) ==
  IF hits # {} THEN [no |-> Smallest(hits), ambiguous |-> FALSE] ELSE otherwise
Decide(exact, loose) ==
  OfHits(Hits(exact),
         IF Partial(exact) # {} THEN [no |-> 0, ambiguous |-> TRUE]
         ELSE OfHits(Hits(loose), [no |-> 0, ambiguous |-> Partial(loose) # {}]))

FindPrefixOpt(tab, arg, negated, couldBeShort) ==
  Decide(Comparison(tab, arg, negated, couldBeShort, FALSE),
         Comparison(tab, arg, negated, couldBeShort, TRUE))

-----------------------------------------------------------------------------
(* The parser.  `left` are the arguments after the current one (argv[1] to *)
(* argv[argc - 1]), `arg` is argv[0], `oclass` says what a character       *)
(* introduces.                                                             *)
NewParser(argv, oclass, options) ==
  [tab |-> Massaged(options), arg |-> NullText, left |-> argv, oclass |-> oclass, xtext |-> NullText,
   processing |-> TRUE, current |-> 0, isShort |-> FALSE, couldBeShort |-> FALSE,
   wholeNegated |-> FALSE, currentShort |-> FALSE, negatedByNo |-> FALSE,
   generation |-> 1, negated |-> FALSE, haveVal |-> FALSE, vstr |-> NullText]

(* Clp_SetOptionChar: at most Limit characters have a class of their own;  *)
(* "NUL" gives every character the class.                                   *)
OptionChar(p, c) ==
  LET own == {i \in DOMAIN p.oclass : p.oclass[i][1] = c} IN
  CASE own # {} -> p.oclass[CHOOSE i \in own : TRUE][2]
    [] own = {} /\ p.oclass # <<>> /\ p.oclass[1][1] = "NUL" -> p.oclass[1][2]
    [] OTHER -> {}

SetOptionChar(p, c, class, limit) ==
  LET own == {i \in DOMAIN p.oclass : p.oclass[i][1] = c} IN
  CASE c = "NUL" -> [p EXCEPT !.oclass = <<<<c, class>>>>]
    [] own # {} -> [p EXCEPT !.oclass = [i \in DOMAIN @ |-> IF i \in own THEN <<c, class>> ELSE @[i]]]
    [] own = {} /\ c # "NUL" /\ Len(p.oclass) < limit -> [p EXCEPT !.oclass = Append(@, <<c, class>>)]
    [] OTHER -> p

(* Clp_SaveParser and Clp_RestoreParser.                                   *)
SaveParser(p) ==
  [arg |-> p.arg, left |-> p.left, xtext |-> p.xtext, processing |-> p.processing,
   generation |-> p.generation, current |-> p.current, isShort |-> p.isShort,
   wholeNegated |-> p.wholeNegated, currentShort |-> p.currentShort,
   negatedByNo |-> p.negatedByNo]

MutRestoreParser(p, s) == [p EXCEPT !.arg = s.arg, !.left = s.left, !.xtext = s.xtext]
RestoreParser(p, s) ==
  [p EXCEPT !.arg = s.arg, !.left = s.left, !.xtext = s.xtext,
            !.processing = s.processing, !.isShort = s.isShort,
            !.wholeNegated = s.wholeNegated, !.currentShort = s.currentShort,
            !.negatedByNo = s.negatedByNo,
            !.current = IF p.generation = s.generation THEN s.current ELSE 0]

(* next_argument: found says that another option is there; an argument     *)
(* that is no option is left in vstr.                                      *)
NotOption(p) == [found |-> FALSE, p |-> [p EXCEPT !.isShort = FALSE, !.haveVal = TRUE, !.vstr = p.arg]]
Found(p) == [found |-> TRUE, p |-> p]

Introduced(p, want) ==
  LET doubled == StartsWith(p.arg, <<"-", "-">>)
      class == OptionChar(p, At(p.arg, 1))
      both == class \cap {"short", "shortneg"} # {} /\ class \cap {"long", "longneg"} # {}
      short == class \cap {"short", "shortneg"} # {} /\ ~both
      single == Len(p.arg) <= 1
  IN  CASE want > 1 -> NotOption(p)
        [] want <= 1 /\ doubled -> Found([p EXCEPT !.xtext = From(p.arg, 3)])
        [] want <= 1 /\ ~doubled /\ class = {} -> NotOption(p)
        [] want <= 1 /\ ~doubled /\ class = {"implicit"} ->
             IF want > 0 THEN NotOption(p) ELSE Found([p EXCEPT !.xtext = p.arg])
        [] OTHER ->
             LET q == [p EXCEPT !.couldBeShort = both /\ ~single, !.isShort = short,
                                !.wholeNegated = class \cap {"shortneg", "longneg"} # {}]
             IN  IF single THEN NotOption(q) ELSE Found([q EXCEPT !.xtext = From(p.arg, 2)])

NextArgument(p, want) ==
  LET cleared == [p EXCEPT !.haveVal = FALSE, !.vstr = NullText, !.couldBeShort = FALSE]
      rest == From(p.xtext, 2)
      moved == [cleared EXCEPT !.isShort = FALSE, !.wholeNegated = FALSE, !.xtext = NullText]
  IN  CASE p.isShort /\ rest # <<>> /\ want > 0 ->
             [found |-> FALSE,
              p |-> [cleared EXCEPT !.xtext = rest, !.isShort = FALSE, !.haveVal = TRUE,
                                    !.vstr = IF At(rest, 1) = "=" THEN From(rest, 2) ELSE rest]]
        [] p.isShort /\ rest # <<>> /\ want = 0 -> Found([cleared EXCEPT !.xtext = rest])
        [] (p.isShort => rest = <<>>) /\ p.left = <<>> -> [found |-> FALSE, p |-> moved]
        [] OTHER -> Introduced([moved EXCEPT !.arg = Head(p.left), !.left = Tail(p.left)], want)

SwitchToShort(p) ==
  [p EXCEPT !.isShort = TRUE, !.xtext = From(p.arg, 2),
            !.wholeNegated = "shortneg" \in OptionChar(p, At(p.arg, 1))]

(* find_long: the option, or one behind "no-", "no-no-" and so on; a value *)
(* may follow "=".                                                         *)
LongFound(p, no, negated, arg, len) ==
  LET value == At(arg, len + 1) = "=" IN
  [no |-> no, p |-> [p EXCEPT !.negated = negated, !.haveVal = @ \/ value,
                              !.vstr = IF value THEN From(arg, len + 2) ELSE @]]

LongOf(p, arg, negated, no, otherwise) ==
  IF no > 0
  THEN LongFound(p, no, negated, arg,
                 ArgCmp(p.tab[no].name, arg, MinMatch(p.tab, no, negated, p.couldBeShort), TRUE))
  ELSE otherwise

FindLong(p, arg0) ==
  LET search[k \in 0..(Len(arg0) \div 3 + 1)] ==
        LET arg == From(arg0, 3 * k + 1)
            negated == IF k % 2 = 0 THEN p.negated ELSE ~p.negated
        IN  LongOf(p, arg, negated, FindPrefixOpt(p.tab, arg, negated, p.couldBeShort).no,
                   IF StartsWith(arg, NoPrefix) THEN search[k + 1]
                   ELSE [no |-> 0, p |-> [p EXCEPT !.negated = negated]])
  IN  search[0]

FindShort(p) ==
  LET hits == {i \in DOMAIN p.tab : /\ HasShort(p.tab[i]) /\ p.tab[i].short = At(p.xtext, 1)
                                    /\ p.negated => p.tab[i].neg}
      no == CHOOSE i \in hits : \A j \in hits : i <= j
  IN  IF hits = {} THEN [no |-> 0, p |-> p]
      ELSE [no |-> no, p |-> [p EXCEPT !.negated = @ \/ ~p.tab[no].pos]]

-----------------------------------------------------------------------------
(* The value parsers.                                                      *)
IntDigits == {"0", "1"}
ParseBool(v) ==
  LET is(word) == ArgCmp(word, v, 1, FALSE) > 0 IN
  CASE Len(v) > 5 \/ \E i \in DOMAIN v : v[i] = "=" -> "bad"
    [] is(<<"y", "e", "s">>) \/ is(<<"t", "r", "u", "e">>) \/ is(<<"1">>) -> "true"
    [] is(<<"n", "o">>) \/ is(<<"f", "a", "l", "s", "e">>) \/ is(<<"1">>) -> "false"
    [] OTHER -> "bad"
ParseInt(v) == v # <<>> /\ \A i \in DOMAIN v : v[i] \in IntDigits
ParseStringList(v) == FindPrefixOpt(ItemTable, v, FALSE, FALSE).no

Parses(type, v) ==
  CASE type \in {"string", "stringnotoption"} -> TRUE
    [] type = "int" -> ParseInt(v)
    [] type = "bool" -> ParseBool(v) # "bad"
    [] type = "list" -> ParseStringList(v) > 0

(* Clp_Next.                                                               *)
Return(id, p) == [id |-> id, p |-> p]
Bad(p) == Return("bad", p)

(* The option is found: take its value, if it has one.                     *)
ValueFrom(p, o) ==
  CASE o.mandatory /\ ~p.haveVal -> IF o.type = "stringnotoption" THEN 1 ELSE 2
    [] ~o.mandatory /\ p.isShort /\ ~p.haveVal /\ Len(p.xtext) > 1 -> 1
    [] OTHER -> 0

Valued(p, o, given) ==
  LET back == RestoreParser([given EXCEPT !.haveVal = FALSE], SaveParser(p)) IN
  CASE ~given.haveVal -> IF o.mandatory THEN Bad(back) ELSE Return(o.id, given)
    [] given.haveVal /\ Parses(o.type, given.vstr) -> Return(o.id, given)
    [] OTHER -> IF p.haveVal \/ o.mandatory THEN Bad([given EXCEPT !.haveVal = FALSE])
                ELSE Return(o.id, back)

WithValue(p, o) ==
  Valued(p, o, IF ValueFrom(p, o) = 0 THEN p ELSE NextArgument(p, ValueFrom(p, o)).p)

Chosen(p, no) ==
  LET o == p.tab[no]
      q == [p EXCEPT !.current = no, !.currentShort = p.isShort,
                     !.negatedByNo = p.negated /\ ~p.wholeNegated]
  IN  CASE p.negated \/ o.type = "none" -> IF p.haveVal THEN Bad(q) ELSE Return(o.id, q)
        [] OTHER -> WithValue(q, o)

(* Short or long; an argument that could be either is tried as a long     *)
(* option first.                                                           *)
Tried(p, try) == IF try.no = 0 /\ p.couldBeShort THEN FindShort(SwitchToShort(try.p)) ELSE try
FindOption(p) == Tried(p, IF p.isShort THEN FindShort(p) ELSE FindLong(p, p.xtext))

OptionFound(hit) ==
  CASE hit.no > 0 /\ (hit.p.negated => hit.p.tab[hit.no].neg) -> Chosen(hit.p, hit.no)
    [] OTHER -> IF hit.p.arg = <<"-", "-">> THEN Return("again", [hit.p EXCEPT !.processing = FALSE])
                ELSE Bad(hit.p)

AfterArgument(arg) ==
  IF arg.found THEN OptionFound(FindOption([arg.p EXCEPT !.negated = arg.p.wholeNegated]))
  ELSE Return(IF arg.p.haveVal THEN "not" ELSE "done", arg.p)

Next0(p) == AfterArgument(NextArgument([p EXCEPT !.current = 0], IF p.processing THEN 0 ELSE 2))

(* "--" turns option processing off and the next argument is returned.     *)
Again(r) == IF r.id = "again" THEN Next0(r.p) ELSE r
ClpNext(p) == Again(Next0(p))

(* Clp_Shift.                                                              *)
ClpShift(p, allowOptions) ==
  LET q == NextArgument(p, IF allowOptions THEN 2 ELSE 1).p IN
  IF q.haveVal THEN q ELSE RestoreParser(q, SaveParser(p))

(* Clp_SetOptions installs another table.                                  *)
SetOptions(p, options) ==
  [p EXCEPT !.tab = Massaged(options), !.generation = @ + 1, !.current = 0]

-----------------------------------------------------------------------------
(* The calls of a program.                                                 *)
Answer(r) == [id |-> r.id, negated |-> r.p.negated /\ r.id \notin {"not", "done", "bad", "shift"},
              val |-> IF r.p.haveVal THEN r.p.vstr ELSE NullText]

ClpInit ==
  /\ script \in Scripts
  /\ clp = NewParser(script.argv, script.oclass, script.options)
  /\ clpSaved = <<>> /\ clpOut = <<>>

CallNext ==
  /\ Len(clpOut) < script.max
  /\ \E r \in {ClpNext(clp)} : clp' = r.p /\ clpOut' = Append(clpOut, Answer(r))
  /\ UNCHANGED <<clpSaved, script>>

CallSave ==
  /\ script.free /\ clpSaved = <<>>
  /\ clpSaved' = <<[state |-> SaveParser(clp), then |-> Answer(ClpNext(clp)),
                    oclass |-> clp.oclass, tab |-> clp.tab]>>
  /\ UNCHANGED <<clp, clpOut, script>>

CallRestore ==
  /\ script.free /\ clpSaved # <<>>
  /\ clp' = RestoreParser(clp, clpSaved[1].state)
  /\ UNCHANGED <<clpSaved, clpOut, script>>

CallShift(allowOptions) ==
  /\ script.free /\ Len(clpOut) < script.max
  /\ clp' = ClpShift(clp, allowOptions)
  /\ clpOut' = Append(clpOut, Answer(Return("shift", clp')))
  /\ UNCHANGED <<clpSaved, script>>

CallSetOptionChar(c, class) ==
  /\ script.free
  /\ clp' = SetOptionChar(clp, c, class, OclassSize) /\ clp' # clp
  /\ UNCHANGED <<clpSaved, clpOut, script>>

CallSetOptions ==
  /\ script.free /\ clp.generation = 1
  /\ clp' = SetOptions(clp, script.options)
  /\ UNCHANGED <<clpSaved, clpOut, script>>

ClpNextState ==
  \/ CallNext \/ CallSave \/ CallRestore \/ CallSetOptions
  \/ \E allow \in BOOLEAN : CallShift(allow)
  \/ \E set \in script.chars : CallSetOptionChar(set[1], set[2])

-----------------------------------------------------------------------------
(* Properties.                                                             *)

(* Every way to write a command line gives the same answers: long names,   *)
(* their unambiguous prefixes and "no-" forms, short options alone or      *)
(* clumped, values after "=", attached or in the next argument, and        *)
(* arguments after "--" (the examples of clp.c:133-154).                   *)
SpellingsAgree ==
  ~script.free /\ Len(clpOut) = script.max => clpOut = script.wanted

(* However far the parser has gone since, restoring a saved state makes    *)
(* Clp_Next answer what it would have answered then                        *)
(* (Clp_RestoreParser, clp.c:1516-1530), also in the middle of a clump of  *)
(* short options.                                                          *)
RestoreExact ==
  clpSaved # <<>> /\ clp.oclass = clpSaved[1].oclass /\ clp.tab = clpSaved[1].tab =>
    Answer(ClpNext(RestoreParser(clp, clpSaved[1].state))) = clpSaved[1].then
=============================================================================
