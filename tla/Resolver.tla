------------------------------ MODULE Resolver ------------------------------
(***************************************************************************)
(* The call resolver: resolver/index.py's two indexes, the five strategies  *)
(* of resolver/strategies.py, and cascade.py, which tries them in order.    *)
(*                                                                         *)
(* A dotted name is the sequence of its segments, a symbol of the workspace *)
(* a record of its repository and its FQN, the index the sequence of the    *)
(* symbols in the order they were added.  Confidences are percentages.      *)
(***************************************************************************)
EXTENDS Integers, SequencesExt

\* No attempt, no symbol.
None == [strategy |-> "none"]

Name(fqn) == Last(fqn)

(***************************************************************************)
(* The indexes.                                                             *)
(***************************************************************************)
\* Mutant of Added: a symbol that is there already is added again.
AddedAgain(index, ref) == Append(index, ref)

\* SymbolIndex.add: overloads and conditional definitions share an FQN.
Added(index, ref) == IF Contains(index, ref) THEN index ELSE Append(index, ref)

BuildIndex(refs) == FoldLeft(Added, << >>, refs)

\* ImportMap.add_file: the last import of a local name wins, "*" has no name.
ImportMap(imports) ==
    LET named == {k \in DOMAIN imports : imports[k].name # "*"}
        last(n) == CHOOSE k \in named : /\ imports[k].name = n
                                        /\ \A j \in named : imports[j].name = n => j <= k
    IN  [n \in {imports[k].name : k \in named} |-> imports[last(n)].target]

\* find_fqn and lookup_fqn look into every repository; all the strategies use of
\* the symbol they return is its FQN, the one asked for.
Defined(index, fqn) == \E ref \in ToSet(index) : ref.fqn = fqn

SimpleName(index, name) == SelectSeq(index, LAMBDA ref : Name(ref.fqn) = name)

(***************************************************************************)
(* The strategies.  A call is its text (receivers and name), the caller's   *)
(* FQN and repository.                                                      *)
(***************************************************************************)
Attempt(repo, fqn, confidence, strategy) ==
    [repo |-> repo, fqn |-> fqn, confidence |-> confidence, strategy |-> strategy]

SameModule(call, imports, index) ==
    LET fqn == Front(call.caller) \o call.text
    IN  IF Len(call.text) = 1 /\ Len(call.caller) > 1 /\ Defined(index, fqn)
        THEN Attempt(call.repo, fqn, 95, "same-module") ELSE None

\* The imported name is replaced by what it stands for.  lookup_fqn falls back
\* on every repository and comes first, so the callee is always attributed to
\* the caller's repository.
ImportSuffix(call, imports, index) ==
    LET head == call.text[1]
        fqn == imports[head] \o Tail(call.text)
    IN  IF head \in DOMAIN imports /\ Defined(index, fqn)
        THEN Attempt(call.repo, fqn, 90, "import-suffix") ELSE None

UniqueGlobal(call, imports, index) ==
    LET found == SimpleName(index, Last(call.text))
    IN  IF Len(found) = 1 THEN Attempt(found[1].repo, found[1].fqn, 85, "unique-global")
        ELSE None

CommonPrefix(a, b) == Len(LongestCommonPrefix({a, b}))

\* The score of a is above that of b.
Closer(a, b, caller) ==
    \/ CommonPrefix(a.fqn, caller) > CommonPrefix(b.fqn, caller)
    \/ CommonPrefix(a.fqn, caller) = CommonPrefix(b.fqn, caller) /\ Len(a.fqn) < Len(b.fqn)

\* max keeps the first of the best.
SuffixByDistance(call, imports, index) ==
    LET found == SimpleName(index, Last(call.text))
        better(a, b) == IF Closer(b, a, call.caller) THEN b ELSE a
        best == FoldLeft(better, found[1], found)
    IN  IF Len(found) > 1 /\ CommonPrefix(best.fqn, call.caller) > 0
        THEN Attempt(best.repo, best.fqn, 75, "suffix-distance") ELSE None

SyntacticFallback(call, imports, index) ==
    LET found == SelectSeq(SimpleName(index, Last(call.text)),
                           LAMBDA ref : IsSuffix(call.text, ref.fqn))
    IN  IF Len(call.text) > 1 /\ Len(found) = 1
        THEN Attempt(found[1].repo, found[1].fqn, 55, "syntactic-fallback") ELSE None

(***************************************************************************)
(* _resolve_call_site: the first attempt of the chain.                      *)
(***************************************************************************)
Attempts(call, imports, index) ==
    <<SameModule(call, imports, index), ImportSuffix(call, imports, index),
      UniqueGlobal(call, imports, index), SuffixByDistance(call, imports, index),
      SyntacticFallback(call, imports, index)>>

ResolveCall(call, imports, index) ==
    FoldLeft(LAMBDA got, next : IF got = None THEN next ELSE got, None,
             Attempts(call, imports, index))

\* resolve_workspace, for one call and the imports of its file.
Resolve(refs, imports, call) == ResolveCall(call, ImportMap(imports), BuildIndex(refs))

-----------------------------------------------------------------------------
(***************************************************************************)
(* The same, said of the set of symbols: those the strategies' descriptions *)
(* allow, as pairs of the repository a symbol lives in and its FQN.  A      *)
(* sibling or an import is the caller's repository's own if it has one.     *)
(***************************************************************************)
Allowed(refs, imports, call) ==
    LET S == ToSet(refs)
        named == {r \in S : Name(r.fqn) = Last(call.text)}
        closest == {r \in named : ~\E s \in named : Closer(s, r, call.caller)}
        spelled == {r \in named : IsSuffix(call.text, r.fqn)}
        sibling == Front(call.caller) \o call.text
        bound == {k \in DOMAIN imports : imports[k].name = call.text[1]}
        meant == {imports[k].target \o Tail(call.text) :
                     k \in {j \in bound : \A i \in bound : i <= j}}
        pairs(R) == {<<r.repo, r.fqn>> : r \in R}
        own(F) == {r \in S : r.fqn \in F /\ r.repo = call.repo}
        known(F) == pairs(IF own(F) # {} THEN own(F) ELSE {r \in S : r.fqn \in F})
    IN  CASE Len(call.text) = 1 /\ Len(call.caller) > 1 /\ known({sibling}) # {} -> known({sibling})
          [] known(meant) # {} -> known(meant)
          [] Cardinality(named) = 1 -> pairs(named)
          [] \E r \in closest : r.fqn[1] = call.caller[1] -> pairs(closest)
          [] Len(call.text) > 1 /\ Cardinality(spelled) = 1 -> pairs(spelled)
          [] OTHER -> {}
=============================================================================
