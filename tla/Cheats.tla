------------------------------- MODULE Cheats -------------------------------
(***************************************************************************)
(* Cheats (Core/cheats.c): the list that the user edits, the table of      *)
(* buckets in which reads look for them, and the file of cheats.  And the  *)
(* search for them (Core/cheat_search.c), which has its own state: filters *)
(* that drop, one after another, the addresses of RAM, cartridge RAM and   *)
(* high memory whose value, of one byte or of two, is not related to its   *)
(* last one.  One pass over all addresses reads old values, decides and    *)
(* overwrites them, also the next address's.  The cartridge has RAM: where *)
(* it has none, the source's pass does not find the end of it.             *)
(***************************************************************************)
EXTENDS Integers, Sequences, FiniteSets

CONSTANTS
    Ids,          \* the cheats' identities (their pointers)
    Records,      \* what a cheat may be: address, bank, value, use_old, enabled
    Buckets,      \* 256 in the source
    AnyBank,      \* GB_CHEAT_ANY_BANK
    WorkRam, CartridgeRam, HighRam,    \* of the three memories that are searched
    ByteValues,   \* 256
    MaxPokes, MaxFilters    \* bounds of the program's writes and the filters

ASSUME CheatsAssumption ==
    /\ \A r \in Records : r.address \in Nat
    /\ Buckets \in Nat \ {0}
    /\ WorkRam \in Nat \ {0} /\ CartridgeRam \in Nat \ {0} /\ HighRam \in Nat \ {0}
    /\ ByteValues \in Nat \ {0} /\ MaxPokes \in Nat /\ MaxFilters \in Nat

OldValue == 0
Original == {0, 5}    \* what memory holds

VARIABLES
    cheats,       \* the list, of identities
    cheat,        \* of each identity, a record
    cheat_hash,   \* of each bucket, a sequence of identities
    bank,         \* mbc_rom_bank
    file          \* the file's records, or none

listVars == <<cheats, cheat, cheat_hash, bank, file>>

Freed == CHOOSE r \in Records : TRUE    \* an identity that is not in use

hash_addr(address) == address % Buckets

ListInit ==
    /\ cheats = <<>> /\ cheat = [i \in Ids |-> Freed]
    /\ cheat_hash = [b \in 0 .. Buckets - 1 |-> <<>>]
    /\ bank = 0 /\ file = <<>>

Members(list) == {list[i] : i \in DOMAIN list}

(* The last one takes the place of the one that is removed. *)
Without(list, id) ==
    [i \in 1 .. Len(list) - 1 |-> IF list[i] = id THEN list[Len(list)] ELSE list[i]]

Rehashed(hash, id, from, to) ==
    [[hash EXCEPT ![hash_addr(from)] = Without(@, id)] EXCEPT ![hash_addr(to)] = Append(@, id)]

GB_add_cheat(id, record) ==
    /\ id \notin Members(cheats)
    /\ cheats' = Append(cheats, id)
    /\ cheat' = [cheat EXCEPT ![id] = record]
    /\ cheat_hash' = [cheat_hash EXCEPT ![hash_addr(record.address)] = Append(@, id)]
    /\ UNCHANGED <<bank, file>>

GB_remove_cheat(id) ==
    /\ id \in Members(cheats)
    /\ cheats' = Without(cheats, id)
    /\ cheat_hash' = [cheat_hash EXCEPT ![hash_addr(cheat[id].address)] = Without(@, id)]
    /\ cheat' = [cheat EXCEPT ![id] = Freed]
    /\ UNCHANGED <<bank, file>>

UpdateInPlace(id, record) ==    \* mutant: the cheat stays in its old bucket
    /\ id \in Members(cheats)
    /\ cheat' = [cheat EXCEPT ![id] = record]
    /\ UNCHANGED <<cheats, cheat_hash, bank, file>>

GB_update_cheat(id, record) ==
    /\ id \in Members(cheats)
    /\ cheat' = [cheat EXCEPT ![id] = record]
    /\ cheat_hash' = IF record.address = cheat[id].address THEN cheat_hash
                     ELSE Rehashed(cheat_hash, id, cheat[id].address, record.address)
    /\ UNCHANGED <<cheats, bank, file>>

(* Nothing is saved if there is nothing. *)
GB_save_cheats ==
    /\ Len(cheats) \in 1 .. 2 /\ file' = [i \in DOMAIN cheats |-> cheat[cheats[i]]]
    /\ UNCHANGED <<cheats, cheat, cheat_hash, bank>>

(* All cheats are removed, and the file's are added one after another. *)
Fresh ==
    CHOOSE ids \in [DOMAIN file -> Ids] : \A j, k \in DOMAIN file : ids[j] = ids[k] => j = k

Added(ids, records) ==
    LET hash[k \in 0 .. Len(records)] ==
            IF k = 0 THEN [b \in 0 .. Buckets - 1 |-> <<>>]
            ELSE [hash[k - 1] EXCEPT ![hash_addr(records[k].address)] = Append(@, ids[k])]
    IN hash[Len(records)]

GB_load_cheats ==
    /\ file # <<>>
    /\ cheats' = Fresh
    /\ cheat' = [id \in Ids |-> IF id \in Members(Fresh)
                               THEN file[CHOOSE k \in DOMAIN file : Fresh[k] = id] ELSE Freed]
    /\ cheat_hash' = Added(Fresh, file)
    /\ UNCHANGED <<bank, file>>

SwitchBank == bank' = 1 - bank /\ UNCHANGED <<cheats, cheat, cheat_hash, file>>

ListNext ==
    \/ \E id \in Ids, record \in Records : GB_add_cheat(id, record) \/ GB_update_cheat(id, record)
    \/ \E id \in Ids : GB_remove_cheat(id)
    \/ GB_save_cheats \/ GB_load_cheats \/ SwitchBank

Matches(c, address, value) ==
    /\ c.address = address /\ c.enabled
    /\ c.use_old => OldValue = value
    /\ c.bank \in {AnyBank, bank}

(* What a read of a value at an address becomes: the first match counts. *)
apply_cheat(address, value) ==
    LET bucket == cheat_hash[hash_addr(address)]
        found == {i \in DOMAIN bucket : Matches(cheat[bucket[i]], address, value)}
    IN IF found = {} THEN value
       ELSE cheat[bucket[CHOOSE i \in found : \A j \in found : i <= j]].value

-----------------------------------------------------------------------------
Size == WorkRam + CartridgeRam + HighRam
Cells == 1 .. Size
Ends == {WorkRam, WorkRam + CartridgeRam, Size}
Bytes == 0 .. ByteValues - 1

VARIABLES
    searched,     \* the three memories, one after another
    data,         \* cheat_search_data
    bitmap,       \* the addresses that have been dropped
    count,        \* cheat_search_count; 0 if there is no search
    type,         \* the values' size, and whether the first byte is the high one
    pokes, filters,
    snapshot,     \* what was searched at the last filter
    step          \* the last filter's relation, or none

searchVars == <<searched, data, bitmap, count, type, pokes, filters, snapshot, step>>

Types == {"byte", "little", "big"}
Relations == {"same", "changed", "increased", "any"}

Value(bytes, i, t) ==
    CASE t = "byte" -> bytes[i]
      [] t = "little" -> bytes[i] + ByteValues * bytes[i + 1]
      [] t = "big" -> ByteValues * bytes[i] + bytes[i + 1]

Related(relation, old, new) ==
    CASE relation = "same" -> new = old
      [] relation = "changed" -> new # old
      [] relation = "increased" -> new > old
      [] relation = "any" -> TRUE

SearchInit ==
    /\ searched \in [Cells -> Bytes] /\ data = [i \in Cells |-> 0] /\ bitmap = {}
    /\ count = 0 /\ type \in Types /\ pokes = 0 /\ filters = 0
    /\ snapshot = [i \in Cells |-> 0] /\ step = "none"

Accepts(d, i, relation) ==
    (type # "byte" => i \notin Ends) /\ Related(relation, Value(d, i, type), Value(searched, i, type))

(* One address of the pass. *)
VisitOne(s, i, relation) ==    \* mutant: the second byte of a value is not remembered
    IF i \in s.bitmap THEN s
    ELSE IF Accepts(s.data, i, relation) THEN [s EXCEPT !.data[i] = searched[i]]
    ELSE [s EXCEPT !.bitmap = @ \cup {i}, !.count = @ - 1]

Visit(s, i, relation) ==
    IF i \in s.bitmap THEN s
    ELSE IF Accepts(s.data, i, relation)
         THEN IF type = "byte" THEN [s EXCEPT !.data[i] = searched[i]]
              ELSE [s EXCEPT !.data[i] = searched[i], !.data[i + 1] = searched[i + 1]]
    ELSE [s EXCEPT !.bitmap = @ \cup {i}, !.count = @ - 1]

Started ==
    IF count = 0 THEN [data |-> [i \in Cells |-> 0], bitmap |-> {}, count |-> Size]
    ELSE [data |-> data, bitmap |-> bitmap, count |-> count]

Pass(relation) ==
    LET visited[i \in 0 .. Size] ==
            IF i = 0 THEN Started ELSE Visit(visited[i - 1], i, relation)
    IN visited[Size]

GB_cheat_search_filter(relation) ==
    /\ filters < MaxFilters /\ filters' = filters + 1
    /\ LET after == Pass(relation)
       IN data' = after.data /\ bitmap' = after.bitmap /\ count' = after.count
    /\ snapshot' = searched /\ step' = relation
    /\ UNCHANGED <<searched, type, pokes>>

GB_cheat_search_reset ==
    /\ count # 0 /\ count' = 0
    /\ bitmap' = {} /\ data' = [i \in Cells |-> 0] /\ snapshot' = data' /\ step' = "none"
    /\ UNCHANGED <<searched, type, pokes, filters>>

Poke(i, value) ==
    /\ pokes < MaxPokes /\ pokes' = pokes + 1
    /\ searched[i] # value /\ searched' = [searched EXCEPT ![i] = value] /\ step' = "none"
    /\ UNCHANGED <<data, bitmap, count, type, filters, snapshot>>

SearchNext ==
    \/ \E relation \in Relations : GB_cheat_search_filter(relation)
    \/ GB_cheat_search_reset \/ \E i \in Cells, value \in Bytes : Poke(i, value)

-----------------------------------------------------------------------------
cheatsVars == <<listVars, searchVars>>

CheatsInit == ListInit /\ SearchInit
CheatsNext == (ListNext /\ UNCHANGED searchVars) \/ (SearchNext /\ UNCHANGED listVars)

CheatsSpec == CheatsInit /\ [][CheatsNext]_cheatsVars
-----------------------------------------------------------------------------
(* A read is changed if and only if a cheat of the list asks for it, and   *)
(* to what such a cheat says: additions, edits and removals in any order   *)
(* never leave a cheat in a bucket it does not belong to.                  *)
ReadsAreListed ==
    \A address \in {r.address : r \in Records}, value \in Original :
        LET asking == {cheat[id].value : id \in {c \in Members(cheats) : Matches(cheat[c], address, value)}}
        IN IF asking = {} THEN apply_cheat(address, value) = value
           ELSE apply_cheat(address, value) \in asking

Left == IF count = 0 THEN {} ELSE Cells \ bitmap

(* What an address is compared with: what was searched before; but the     *)
(* byte that it shares with a value of two bytes kept just before it is    *)
(* the present one, since the pass has remembered that already.            *)
ComparedWith(before, dropped, i) ==
    IF type = "byte" \/ i = 1 \/ i - 1 \in dropped THEN before
    ELSE [before EXCEPT ![i] = searched[i]]

(* A filter keeps an address if and only if its value is so related to the *)
(* one it had at the filter before (zero before the first), for each of    *)
(* the addresses that were left, overlapped or not; and it counts them.    *)
FiltersSinceTheLast ==
    [][filters' # filters =>
         LET before == IF count = 0 THEN [i \in Cells |-> 0] ELSE snapshot
             candidates == IF count = 0 THEN Cells ELSE Left
         IN /\ \A i \in candidates :
                  i \notin bitmap' <=> Accepts(ComparedWith(before, bitmap', i), i, step')
            /\ count' = Cardinality(Cells \ bitmap')]_searchVars
=============================================================================
