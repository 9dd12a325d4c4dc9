----------------------------- MODULE Expression -----------------------------
(***************************************************************************)
(* The debugger's expressions (Core/debugger.c).  debugger_evaluate reads  *)
(* the tokens from left to right, again for every part, and splits at the  *)
(* last operator of the lowest priority outside of brackets.  It is        *)
(* compared with an evaluation of the same tokens in one pass, with two    *)
(* stacks.  A value may have a bank; 2^16 is Word.  Tokens are numbers,    *)
(* operators and round brackets: registers, symbols, memory and the        *)
(* assignment, which is an operator of its own priority, are numbers here. *)
(*                                                                         *)
(* The symbols of a bank (Core/symbol_hash.c) have their own state: an     *)
(* array that is sorted by address, local symbols before others, with a    *)
(* binary search for insertion and for the symbol an address belongs to;   *)
(* and the table by name, of all banks.                                    *)
(***************************************************************************)
EXTENDS Integers, Sequences, SequencesExt, FiniteSetsExt

CONSTANTS
    Word,         \* 2^16 in the source
    Numbers, Operators,    \* the tokens that are used
    MaxOperands,  \* bound of the numbers in an expression
    Addresses,
    Names,        \* of symbols: [name |-> .., hash |-> .., local |-> ..], hash the bucket
    MaxSymbols    \* bound

VARIABLES
    tokens,       \* the expression so far
    open,         \* its brackets that are still open
    operands

expressionVars == <<tokens, open, operands>>

Priority(token) ==
    CASE token \in {"+", "-", "||", "|"} -> 0
      [] token \in {"*", "/", "%", "&&", "&", "^"} -> 1
      [] token \in {"<<", ">>"} -> 2
      [] token \in {"<=", "<", ">=", ">", "==", "!="} -> -2
      [] token = "=" -> -1
      [] token = ":" -> 3

Literal(token) == CASE token = "0" -> 0 [] token = "1" -> 1 [] token = "2" -> 2 [] token = "3" -> 3

Value16(x) == [value |-> x % Word, has_bank |-> FALSE, bank |-> 0]
Error == [value |-> -1, has_bank |-> FALSE, bank |-> 0]

(* An address and a number make an address; two addresses make a number.   *)
FixBank(a, b, x) ==
    [value |-> x % Word, has_bank |-> a.has_bank # b.has_bank,
     bank |-> IF a.has_bank THEN a.bank ELSE b.bank]

Apply(operator, a, b) ==
    CASE operator = "+" -> FixBank(a, b, a.value + b.value)
      [] operator = "-" -> FixBank(a, b, a.value - b.value)
      [] operator = "*" -> FixBank(a, b, a.value * b.value)
      [] operator = "/" -> FixBank(a, b, IF b.value = 0 THEN 0 ELSE a.value \div b.value)
      [] operator = "<<" -> FixBank(a, b, a.value * 2 ^ b.value)
      [] operator = "<" -> Value16(IF a.value < b.value THEN 1 ELSE 0)
      [] operator = "==" -> Value16(IF a.value = b.value THEN 1 ELSE 0)
      [] operator = ":" -> [value |-> b.value, has_bank |-> TRUE, bank |-> a.value]

(* How many brackets are open before each token. *)
Depth(string) ==
    [i \in DOMAIN string |->
        Cardinality({j \in 1 .. i - 1 : string[j] = "("}) - Cardinality({j \in 1 .. i - 1 : string[j] = ")"})]

EnclosedAtEnds(string) ==    \* mutant: brackets at both ends are taken for a pair
    Len(string) > 1 /\ string[1] = "(" /\ Last(string) = ")"

Enclosed(string) ==
    /\ Len(string) > 1 /\ string[1] = "(" /\ Last(string) = ")"
    /\ \A i \in 2 .. Len(string) : Depth(string)[i] # 0 \/ string[i] = "("

Outside(string) == {i \in DOMAIN string : string[i] \in Operators /\ Depth(string)[i] = 0}

(* Where the operator is that is applied last. *)
SplitPoint(string) ==
    Max({i \in Outside(string) : \A j \in Outside(string) : Priority(string[i]) <= Priority(string[j])})

debugger_evaluate[string \in Seq(Numbers \cup Operators \cup {"(", ")"})] ==
    IF string = <<>> THEN Error
    ELSE IF Enclosed(string) THEN debugger_evaluate[SubSeq(string, 2, Len(string) - 1)]
    ELSE IF Outside(string) # {} THEN
        LET split == SplitPoint(string)
            right == debugger_evaluate[SubSeq(string, split + 1, Len(string))]
            left == debugger_evaluate[SubSeq(string, 1, split - 1)]
        IN IF right = Error \/ left = Error THEN Error ELSE Apply(string[split], left, right)
    ELSE IF Len(string) = 1 /\ string[1] \in Numbers THEN Value16(Literal(string[1])) ELSE Error
-----------------------------------------------------------------------------
ExpressionInit == tokens = <<>> /\ open = 0 /\ operands = 0

Ended == tokens # <<>> /\ (Last(tokens) \in Numbers \/ Last(tokens) = ")")

Number(n) ==
    /\ ~Ended /\ operands < MaxOperands
    /\ tokens' = Append(tokens, n) /\ operands' = operands + 1 /\ UNCHANGED open

Operator(o) == Ended /\ tokens' = Append(tokens, o) /\ UNCHANGED <<open, operands>>

Open ==
    /\ ~Ended /\ operands + 1 < MaxOperands /\ open < 2
    /\ tokens' = Append(tokens, "(") /\ open' = open + 1 /\ UNCHANGED operands

Close == Ended /\ open > 0 /\ tokens' = Append(tokens, ")") /\ open' = open - 1 /\ UNCHANGED operands

ExpressionNext == (\E n \in Numbers : Number(n)) \/ (\E o \in Operators : Operator(o)) \/ Open \/ Close

(* One pass: operators wait on a stack until one of no higher priority     *)
(* comes, a bracket is closed or the expression ends.                      *)
ApplyTop(s) ==
    LET n == Len(s.values) IN
    [s EXCEPT !.values = Append(SubSeq(@, 1, n - 2), Apply(Last(s.waiting), s.values[n - 1], s.values[n])),
              !.waiting = Front(@)]

Waits(s, priority) == s.waiting # <<>> /\ Last(s.waiting) # "(" /\ Priority(Last(s.waiting)) >= priority

(* At most as many operators wait as there are numbers. *)
Settle(s, priority) ==
    FoldLeft(LAMBDA state, i : IF Waits(state, priority) THEN ApplyTop(state) ELSE state,
             s, [i \in 1 .. MaxOperands |-> i])

Take(s, token) ==
    CASE token \in Numbers -> [s EXCEPT !.values = Append(@, Value16(Literal(token)))]
      [] token = "(" -> [s EXCEPT !.waiting = Append(@, "(")]
      [] token = ")" -> LET settled == Settle(s, -2) IN [settled EXCEPT !.waiting = Front(@)]
      [] OTHER -> LET settled == Settle(s, Priority(token)) IN
                  [settled EXCEPT !.waiting = Append(@, token)]

InOnePass == Settle(FoldLeft(Take, [values |-> <<>>, waiting |-> <<>>], tokens), -2).values[1]

-----------------------------------------------------------------------------
VARIABLES
    symbols,      \* the array: addr, name, and the order in which it was added
    buckets       \* of each hash, the names' symbols, the last one first

symbolVars == <<symbols, buckets>>

SymbolInit == symbols = <<>> /\ buckets = [h \in {n.hash : n \in Names} |-> <<>>]

Key(addr, local) == 2 * addr + (IF local THEN 0 ELSE 1)

(* The binary search: where a symbol with the key is, or else would be. *)
FoundPastEnd(key, s) ==    \* mutant: the upper half begins at the pivot's predecessor
    LET pivot == (s.min + s.max) \div 2 IN
    IF s.min >= s.max \/ s.found THEN s
    ELSE LET there == symbols[pivot + 1] IN
         IF Key(there.addr, there.local) = key THEN [s EXCEPT !.found = TRUE, !.min = pivot]
         ELSE IF Key(there.addr, there.local) > key THEN [s EXCEPT !.max = pivot]
         ELSE [s EXCEPT !.min = s.max]

Halved(key, s) ==
    LET pivot == (s.min + s.max) \div 2 IN
    IF s.min >= s.max \/ s.found THEN s
    ELSE LET there == symbols[pivot + 1] IN
         IF Key(there.addr, there.local) = key THEN [s EXCEPT !.found = TRUE, !.min = pivot]
         ELSE IF Key(there.addr, there.local) > key THEN [s EXCEPT !.max = pivot]
         ELSE [s EXCEPT !.min = pivot + 1]

map_find_symbol_index(addr, local) ==
    FoldLeft(LAMBDA s, i : Halved(Key(addr, local), s),
             [min |-> 0, max |-> Len(symbols), found |-> FALSE],
             [i \in 1 .. Len(symbols) + 1 |-> i]).min

GB_map_add_symbol(addr, name) ==
    LET index == map_find_symbol_index(addr, name.local)
        symbol == [addr |-> addr, name |-> name.name, local |-> name.local]
    IN /\ Len(symbols) < MaxSymbols
       /\ symbols' = InsertAt(symbols, index + 1, symbol)
       /\ buckets' = [buckets EXCEPT ![name.hash] = <<symbol>> \o @]

SymbolNext == \E addr \in Addresses, name \in Names : GB_map_add_symbol(addr, name)

Nobody == [addr |-> -1, name |-> "none", local |-> FALSE]

GB_map_find_symbol(addr, prefer_local) ==
    LET index == map_find_symbol_index(addr, prefer_local)
        at == IF index >= Len(symbols) \/ symbols[index + 1].addr # addr THEN index - 1 ELSE index
        first == Min({i \in 0 .. at : \A j \in i .. at :
                        /\ symbols[j + 1].addr = symbols[at + 1].addr
                        /\ symbols[j + 1].local = symbols[at + 1].local})
    IN IF at \in 0 .. Len(symbols) - 1 THEN symbols[first + 1] ELSE Nobody

GB_reversed_map_find_symbol(name) ==
    LET found == SelectSeq(buckets[name.hash], LAMBDA s : s.name = name.name)
    IN IF found = <<>> THEN Nobody ELSE Head(found)

Known == ToSet(symbols)
Queries == Addresses \cup {a + 1 : a \in Addresses}

-----------------------------------------------------------------------------
vars == <<expressionVars, symbolVars>>

Init == ExpressionInit /\ SymbolInit
Next == (ExpressionNext /\ UNCHANGED symbolVars) \/ (SymbolNext /\ UNCHANGED expressionVars)

Spec == Init /\ [][Next]_vars
-----------------------------------------------------------------------------
(* A whole expression has the value that its operators' priorities give    *)
(* it, those of one priority from left to right; one that ends too early   *)
(* is an error.                                                            *)
EvaluatesByPriority ==
    tokens # <<>> =>
        debugger_evaluate[tokens] = IF Ended /\ open = 0 THEN InOnePass ELSE Error

(* An address belongs to the nearest symbol at or below it; of several at  *)
(* the address itself, to one of the kind that is asked for.  A name leads *)
(* to a symbol of that name.                                               *)
NearestSymbol ==
    /\ \A addr \in Queries, prefer_local \in BOOLEAN :
         LET found == GB_map_find_symbol(addr, prefer_local)
             below == {s \in Known : s.addr <= addr}
         IN IF below = {} THEN found = Nobody
            ELSE /\ found \in below /\ \A s \in below : s.addr <= found.addr
                 /\ found.addr = addr /\ (\E s \in below : s.addr = addr /\ s.local = prefer_local)
                      => found.local = prefer_local
    /\ \A name \in Names :
         LET found == GB_reversed_map_find_symbol(name) IN
         IF \E s \in Known : s.name = name.name THEN found \in Known /\ found.name = name.name
         ELSE found = Nobody
=============================================================================
