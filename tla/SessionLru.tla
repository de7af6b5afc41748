----------------------------- MODULE SessionLru ----------------------------
(***************************************************************************)
(* The session cache of BearSSL's server (ssl_lru.c).  One byte array      *)
(* holds entries of fixed size; the entries are the nodes of a doubly      *)
(* linked list, in order of use, and of a binary search tree, in order of  *)
(* the masked identifiers.  An address is the number of an entry.          *)
(***************************************************************************)
EXTENDS Integers, Sequences, Functions

CONSTANTS
  Ids,       \* session identifiers, as numbers
  Vals,      \* what is kept of a session
  Capacity   \* entries the array has room for: store_len \div LRU_ENTRY_LEN

ASSUME LruAssumption == Ids \subseteq Nat /\ Capacity \in Nat

Null == 0                  \* ADDR_NULL
Addr == 1..Capacity

\* A place in memory that points to a tree node: the root, or a child field
\* of an entry.
Root == <<Null, "root">>
Links == {Root} \cup (Addr \X {"left", "right"})

NotFound == "not found"

VARIABLES
  cache,   \* the context with its array
  result   \* what the last call was, with its masked identifier, and what it returned

lru_vars == <<cache, result>>

\* A call, the parameters it was given and what it gave.
Did(op, id, val, answer) == [op |-> op, id |-> id, val |-> val, answer |-> answer]

NoCall == [op |-> "none"]

\* br_ssl_session_cache_lru_init; the array may hold anything.
LruInit ==
  /\ cache = [used |-> 0, head |-> Null, tail |-> Null, init_done |-> FALSE,
              link |-> [l \in Links |-> Null],
              prev |-> [x \in Addr |-> Null], next |-> [x \in Addr |-> Null],
              id   |-> [x \in Addr |-> 0],
              val  |-> [x \in Addr |-> NotFound],
              live |-> [x \in Addr |-> FALSE]]
  /\ result = NoCall

-----------------------------------------------------------------------------
(* The masked identifier.  HMAC puts identifiers in an order unrelated to
   their own; that it may make two equal is left out, as in the comment. *)
mask_id(id) == ((2 * id) % 5) + 5 * (id \div 5)

(* The link to the node with identifier m or, if there is none, the empty link
   where it belongs. *)
find_node(c, m) ==
  LET follow[l \in Links] ==
        LET x == c.link[l] IN
        IF x = Null \/ c.id[x] = m THEN l
        ELSE follow[<<x, IF m < c.id[x] THEN "left" ELSE "right">>]
  IN follow[Root]

\* The link at the end of the path that starts with l, which is not empty, and then
\* keeps to one side.
Outermost(c, l, side) ==
  LET follow[k \in {k \in Links : c.link[k] # Null}] ==
        IF c.link[<<c.link[k], side>>] = Null THEN k
        ELSE follow[<<c.link[k], side>>]
  IN follow[l]

(* The link to the node that takes the place of x when it is removed. *)
find_replacement_node(c, x) ==
  IF c.link[<<x, "left">>] # Null THEN Outermost(c, <<x, "left">>, "right")
  ELSE IF c.link[<<x, "right">>] # Null THEN Outermost(c, <<x, "right">>, "left")
  ELSE Root

set_link(c, l, x) == [c EXCEPT !.link[l] = x]

(* The replacement's only child takes its old place, and it takes the place
   and the children of x. *)
remove_node(c, x) ==
  LET alx == find_node(c, c.id[x])
      aly == find_replacement_node(c, x)
      y == c.link[aly]
      z == IF c.link[<<y, "left">>] # Null
             THEN c.link[<<y, "left">>] ELSE c.link[<<y, "right">>]
      moved == set_link(set_link(c, aly, z), alx, y)
  IN IF aly = Root THEN set_link(c, alx, Null)
     ELSE [moved EXCEPT !.link[<<y, "left">>] = moved.link[<<x, "left">>],
                        !.link[<<y, "right">>] = moved.link[<<x, "right">>]]

\* The list without its last entry.
DropTail(c) ==
  LET t == c.prev[c.tail] IN
  IF t = Null THEN [c EXCEPT !.tail = Null, !.head = Null]
  ELSE [c EXCEPT !.tail = t, !.next[t] = Null]

\* x as the new head of the list.
PushHead(c, x) ==
  LET linked == IF c.head = Null THEN [c EXCEPT !.tail = x]
                ELSE [c EXCEPT !.prev[c.head] = x]
  IN [linked EXCEPT !.prev[x] = Null, !.next[x] = c.head, !.head = x]

\* The list without x, which is not its head.
Unlink(c, x) ==
  LET p == c.prev[x]
      n == c.next[x]
      passed == [c EXCEPT !.next[p] = n]
  IN IF n = Null THEN [passed EXCEPT !.tail = p] ELSE [passed EXCEPT !.prev[n] = p]

\* The room for a new entry: a fresh one, or that of the evicted tail.
EntryFor(c) == IF c.used = Capacity THEN c.tail ELSE c.used + 1

MakeRoom(c) ==
  IF c.used = Capacity THEN remove_node(DropTail(c), c.tail)
  ELSE [c EXCEPT !.used = @ + 1]

-----------------------------------------------------------------------------
\* Mutant: the place in the tree is looked up before the eviction changes it.
lru_save_early(id, val) ==
  LET m == mask_id(id)
      x == EntryFor(cache)
      linked == set_link(MakeRoom(cache), find_node(cache, m), x)
      bare == [linked EXCEPT !.link[<<x, "left">>] = Null,
                             !.link[<<x, "right">>] = Null]
  IN
  /\ result' = Did("save", m, val, NotFound)
  /\ IF Capacity = 0 THEN UNCHANGED cache
     ELSE IF cache.link[find_node(cache, m)] # Null
       THEN cache' = [cache EXCEPT !.init_done = TRUE]
     ELSE cache' = [PushHead(bare, x) EXCEPT
       !.init_done = TRUE, !.id[x] = m, !.val[x] = val, !.live[x] = TRUE]

lru_save(id, val) ==
  LET m == mask_id(id)
      x == EntryFor(cache)
      roomy == MakeRoom(cache)
      linked == set_link(roomy, find_node(roomy, m), x)
      bare == [linked EXCEPT !.link[<<x, "left">>] = Null,
                             !.link[<<x, "right">>] = Null]
  IN
  /\ result' = Did("save", m, val, NotFound)
  /\ IF Capacity = 0 THEN UNCHANGED cache
     ELSE IF cache.link[find_node(cache, m)] # Null
       THEN cache' = [cache EXCEPT !.init_done = TRUE]
     ELSE cache' = [PushHead(bare, x) EXCEPT
       !.init_done = TRUE, !.id[x] = m, !.val[x] = val, !.live[x] = TRUE]

\* Mutant: a disabled entry is not told from the others.
lru_load_disabled(id) ==
  LET m == mask_id(id)
      x == cache.link[find_node(cache, m)]
  IN
  IF ~cache.init_done \/ x = Null
    THEN UNCHANGED cache /\ result' = Did("load", m, NotFound, NotFound)
    ELSE /\ result' = Did("load", m, NotFound, cache.val[x])
         /\ cache' = IF x = cache.head THEN cache ELSE PushHead(Unlink(cache, x), x)

\* A disabled entry is not found; any other moves to the head.
lru_load(id) ==
  LET m == mask_id(id)
      x == cache.link[find_node(cache, m)]
  IN
  IF ~cache.init_done \/ x = Null \/ (x # Null /\ ~cache.live[x])
    THEN UNCHANGED cache /\ result' = Did("load", m, NotFound, NotFound)
    ELSE /\ result' = Did("load", m, NotFound, cache.val[x])
         /\ cache' = IF x = cache.head THEN cache ELSE PushHead(Unlink(cache, x), x)

\* The entry stays, with version 0.
br_ssl_session_cache_lru_forget(id) ==
  LET m == mask_id(id)
      x == cache.link[find_node(cache, m)]
  IN
  /\ result' = Did("forget", m, NotFound, NotFound)
  /\ cache' = IF cache.init_done /\ x # Null
                THEN [cache EXCEPT !.live[x] = FALSE] ELSE cache

LruNext ==
  \E id \in Ids :
    \/ lru_load(id)
    \/ br_ssl_session_cache_lru_forget(id)
    \/ \E val \in Vals : lru_save(id, val)

LruSpec == LruInit /\ [][LruNext]_lru_vars

\* For TLC: what a call does depends on the cache only, not on the call before.
LruView == cache

-----------------------------------------------------------------------------
\* The entries from the head on, as many as are in use.
ListOrder(c) ==
  LET nth[n \in 1..c.used] ==
        IF n = 1 THEN c.head
        ELSE IF nth[n - 1] = Null THEN Null ELSE c.next[nth[n - 1]]
  IN  nth

\* The nodes reached from a link: those of every set that has the node it points to
\* and, with a node, its children.
HasChildren(c, S) ==
  \A x \in S, side \in {"left", "right"} : c.link[<<x, side>>] \in S \cup {Null}

Under(c, l) ==
  {y \in Addr : \A S \in SUBSET Addr :
     HasChildren(c, S) /\ c.link[l] \in S \cup {Null} => y \in S}

(* Tree and list share the entries of one array and are changed by code that
   knows only one of them: every entry that is in use is in the list once, with
   both directions and both ends right. *)
ListSound(c) ==
  LET order == ListOrder(c) IN
  /\ IsInjective(order) /\ Range(order) = 1..c.used
  /\ c.used = 0 => c.head = Null /\ c.tail = Null
  /\ c.used > 0 => c.tail = order[c.used] /\ c.next[c.tail] = Null
  /\ \A k \in DOMAIN order :
       c.prev[order[k]] = IF k = 1 THEN Null ELSE order[k - 1]

(* Every entry in use is where a search by its identifier finds it, whatever
   was inserted and evicted before. *)
TreeSearchable(c) ==
  /\ Under(c, Root) = 1..c.used
  /\ \A x \in 1..c.used :
       /\ \A y \in Under(c, <<x, "left">>) : c.id[y] < c.id[x]
       /\ \A y \in Under(c, <<x, "right">>) : c.id[y] > c.id[x]

(* Tree and list stay sound together, and agree on what is cached. *)
CacheSound == ListSound(cache) /\ TreeSearchable(cache)

\* The sessions in order of use.
Cached(c) ==
  LET order == ListOrder(c) IN
  [k \in 1..c.used |->
     [id |-> c.id[order[k]], val |-> c.val[order[k]], live |-> c.live[order[k]]]]

Lru == INSTANCE AbstractLru WITH
  Ids <- {mask_id(id) : id \in Ids}, sessions <- Cached(cache)

(* Any sequence of saves, loads and forgets answers as a cache does that evicts
   the session least recently used: each call the one with its identifier. *)
IsLru == Lru!Spec
=============================================================================
