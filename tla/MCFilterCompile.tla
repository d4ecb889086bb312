--------------------------- MODULE MCFilterCompile ---------------------------
(***************************************************************************)
(* The parts of the filter compiler side by side: the binary search, the   *)
(* scanner, the parser and the code generator, each with the inputs that   *)
(* its instance chooses.  A behaviour is one call of one of them; the      *)
(* others have returned.                                                   *)
(***************************************************************************)
EXTENDS TableSearch, MCFilterParse, MCFilterFlatten, MCTokenScan

(* The theorems of FilterCompile_proofs ask for this. *)
ASSUME NothingDecidedHere == NothingDecided
ASSUME LimitsAssumption == {parseMax, tokensMax} \subseteq Nat \ {0}

-----------------------------------------------------------------------------
Sorted(S)   == SetToSortSeq(S, LAMBDA x, y : x < y)
SmallTables == {Sorted(S) : S \in UNION {kSubset(k, 0 .. 5) : k \in 0 .. 6}}
AllTables   == SmallTables \cup {VarTable}
SomeKeys    == 0 .. 100

AnyText(t) == \/ Soup(t, Structure, 7) \/ Soup(t, Choice, 7)
              \/ Soup(t, Compared, 5) \/ t \in LongTexts

-----------------------------------------------------------------------------
SearchReturned == table = <<>> /\ key = 0 /\ lo = 0 /\ hi = -1 /\ found = -1 /\ pc = "done"
ParserReturned == input = <<>> /\ result = [Found(<<>>, 0) EXCEPT !.err = "bad token"] /\ parsing = "done"
ScanReturned ==
    /\ text = <<>> /\ layer = "network" /\ read = 0 /\ tokens = <<>>
    /\ err = "none" /\ scanning = "done"
EmitReturned == expr = <<>> /\ list = <<>> /\ ipEP = -1 /\ object = <<>> /\ emitting = "returned"

CompileInit ==
    \/ Init /\ ParserReturned /\ ScanReturned /\ EmitReturned
    \/ SearchReturned /\ ParseInit /\ ScanReturned /\ EmitReturned
    \/ SearchReturned /\ ParserReturned /\ ScanInit /\ EmitReturned
    \/ SearchReturned /\ ParserReturned /\ ScanReturned /\ FlattenInit

Search    == Next /\ UNCHANGED <<parseVars, scanVars, emitVars>>
ParseText == ParseNext /\ UNCHANGED <<vars, scanVars, emitVars>>
Scan      == ScanNext /\ UNCHANGED <<vars, parseVars, emitVars>>
Generate  == FlattenNext /\ UNCHANGED <<vars, parseVars, scanVars>>

CompileSpec ==
    /\ CompileInit
    /\ [][Search \/ ParseText \/ Scan \/ Generate]_<<vars, parseVars, scanVars, emitVars>>
    /\ WF_vars(Search)
=============================================================================
