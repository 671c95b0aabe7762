------------------------------ MODULE Cooperation ------------------------------
(***************************************************************************)
(* Compiling a scenario's hauliers and cooperation structures: shares into *)
(* agents, edges and pools into one another, connected components, ids and *)
(* the active structure; compiling the written recipe again; and a run's   *)
(* override of the active structure.                                       *)
(*                                                                         *)
(* A haulier is its index.  An id is a sequence: a name and the numbers    *)
(* that were appended to make it unique.  The id derived from a pool's     *)
(* members ("p:a+b") is no slug; its slug ("p-a-b") is another id.         *)
(***************************************************************************)
EXTENDS Integers, FiniteSets, Sequences, SequencesExt, FiniteSetsExt

CONSTANTS
  N,             \* number of hauliers
  ShareLists,    \* shares an author may give, per haulier, -1 for none
  Counts,        \* agents to distribute
  Entries,       \* structures an author may write: [form, id, edges, pools]
  Actives,       \* what "active" may say: "" for nothing
  MaxEntries     \* bound: structures in one scenario

VARIABLES
  spec,    \* [shares, count, entries, active]
  out,     \* the compile: [status, fleet, structures, active]
  first,   \* the first compile, once there is a second
  run      \* the active structure of a run: an id, <<>> before a run

vars == <<spec, out, first, run>>

Companies == 1 .. N
Nothing == [status |-> "none", fleet |-> <<>>, structures |-> <<>>, active |-> <<>>]
Refused == [Nothing EXCEPT !.status = "refused"]

-----------------------------------------------------------------------------
(* Shares: all left out means equal ones, else a missing one is 0 and they *)
(* add up to 100.                                                          *)

AllMissing(s) == \A h \in Companies : s[h] = -1
normalize_hauliers(s) == IF AllMissing(s) THEN [h \in Companies |-> 1] ELSE [h \in Companies |-> IF s[h] = -1 THEN 0 ELSE s[h]]
Total(w) == FoldFunction(+, 0, w)
shares_are_valid(s) == AllMissing(s) \/ Total(normalize_hauliers(s)) = 100

(* The place of a haulier in the order of the largest remainders.          *)
remainder_rank(n, w, h) ==
  LET part(g) == (w[g] * n) % Total(w) IN
  1 + Cardinality({g \in Companies : part(g) > part(h) \/ (part(g) = part(h) /\ g < h)})

distribute_by_share(n, w) ==
  LET whole == [h \in Companies |-> (w[h] * n) \div Total(w)]
      left == n - Total(whole) IN
  [h \in Companies |-> whole[h] + IF remainder_rank(n, w, h) <= left THEN 1 ELSE 0]

-----------------------------------------------------------------------------
(* Edges and pools.  An edge is a pair <<a, b>> with a < b.                *)

normalize_edges(raw) == {<<Min({e[1], e[2]}), Max({e[1], e[2]})>> : e \in {f \in raw : f[1] # f[2]}}

derived_pool_id(members) == <<"derived", members>>
pool_id_slug(id) == IF id[1] = "derived" THEN <<"slug">> \o Tail(id) ELSE id

(* An id that is taken gets the least number that makes it free.           *)
unique_id(id, seen) ==
  IF id \notin seen THEN id
  ELSE Append(id, CHOOSE k \in 1 .. Cardinality(seen) :
                    Append(id, k) \notin seen /\ \A j \in 1 .. k - 1 : Append(id, j) \in seen)

derive_pools_from_edges(edges) == {[id |-> derived_pool_id({e[1], e[2]}), members |-> {e[1], e[2]}] : e \in edges}
derive_edges_from_pools(pools) == UNION {{e \in p.members \X p.members : e[1] < e[2]} : p \in pools}

(* Authored pools in their order; one with a single member is dropped.     *)
normalize_pools(raw) ==
  FoldLeft(LAMBDA pools, p :
             IF Cardinality(p.members) < 2 THEN pools
             ELSE LET id == IF p.id = <<>> THEN derived_pool_id(p.members) ELSE pool_id_slug(p.id) IN
                  pools \cup {[id |-> unique_id(id, {q.id : q \in pools}), members |-> p.members]},
           {}, raw)

(* Union-find over the sorted edges.                                       *)
find(parent, x) == LET up[k \in 0 .. N] == IF k = 0 THEN x ELSE parent[up[k - 1]] IN up[N]

(* Slip: an edge hangs its first member, not that member's root. *)
union_members(parent, e) == [parent EXCEPT ![e[1]] = find(parent, e[2])]

union(parent, e) == [parent EXCEPT ![find(parent, e[1])] = find(parent, e[2])]

components_of(edges) ==
  LET sorted == SetToSortSeq(edges, LAMBDA e, f : e[1] < f[1] \/ (e[1] = f[1] /\ e[2] < f[2]))
      parent == FoldLeft(LAMBDA p, e : union(p, e), [h \in Companies |-> h], sorted) IN
  {{g \in Companies : find(parent, g) = find(parent, h)} : h \in Companies}

-----------------------------------------------------------------------------
(* The cooperation block.                                                  *)

structure(id, edges, pools) == [id |-> id, edges |-> edges, pools |-> pools, components |-> components_of(edges)]

agrees(entry) == entry.form = "both" => derive_edges_from_pools(normalize_pools(entry.pools)) = normalize_edges(entry.edges)

(* Pools are canonical where they were written; ids become unique.         *)
declared_structures(entries) ==
  FoldLeft(LAMBDA done, entry :
             LET pools == IF entry.form = "edges" THEN derive_pools_from_edges(normalize_edges(entry.edges))
                                                  ELSE normalize_pools(entry.pools)
                 edges == IF entry.form = "edges" THEN normalize_edges(entry.edges) ELSE derive_edges_from_pools(pools)
                 id == IF entry.id = <<>> THEN <<"structure", Len(done)>> ELSE entry.id IN
             Append(done, structure(unique_id(id, {s.id : s \in ToSet(done)}), edges, pools)),
           <<>>, entries)

(* A structure without edges is always there.                              *)
with_baseline(declared) ==
  IF \E s \in ToSet(declared) : s.edges = {} THEN declared
  ELSE LET taken == <<"no-coop">> \in {s.id : s \in ToSet(declared)} IN
       <<structure(IF taken THEN <<"baseline">> ELSE <<"no-coop">>, {}, {})>> \o declared

(* Structures by id: of two with one id the later is found.                *)
active_structure(structures, id) == structures[Max({i \in DOMAIN structures : structures[i].id = id})]

normalize_cooperation(entries, active) ==
  LET declared == declared_structures(entries)
      structures == with_baseline(declared)
      ids == {s.id : s \in ToSet(structures)}
      chosen == IF active # <<>> THEN active
                ELSE IF declared # <<>> THEN declared[1].id ELSE structures[1].id IN
  [ok |-> chosen \in ids /\ \A entry \in ToSet(entries) : agrees(entry), structures |-> structures, active |-> chosen]

compile(s) ==
  LET coop == normalize_cooperation(s.entries, s.active) IN
  IF shares_are_valid(s.shares) /\ coop.ok
    THEN [status |-> "ok", fleet |-> distribute_by_share(s.count, normalize_hauliers(s.shares)),
          structures |-> coop.structures, active |-> coop.active]
    ELSE Refused

(* The recipe: edges always, pools where the author wrote them.            *)
authored_pool_structure_ids(s) ==
  LET declared == declared_structures(s.entries) IN {declared[i].id : i \in {j \in DOMAIN declared : s.entries[j].form # "edges"}}

recipe(s, o) ==
  [s EXCEPT
    !.active = o.active,
    !.entries = [i \in DOMAIN o.structures |->
      LET st == o.structures[i] IN
      [form |-> IF st.id \in authored_pool_structure_ids(s) THEN "both" ELSE "edges", id |-> st.id, edges |-> st.edges,
       pools |-> SetToSeq(st.pools)]]]

-----------------------------------------------------------------------------
Init ==
  /\ \E s \in ShareLists, c \in Counts, a \in Actives :
       spec = [shares |-> s, count |-> c, entries |-> <<>>, active |-> a]
  /\ out = Nothing /\ first = Nothing /\ run = <<>>

AddEntry(e) ==
  /\ out.status = "none" /\ Len(spec.entries) < MaxEntries
  /\ spec' = [spec EXCEPT !.entries = Append(@, e)]
  /\ UNCHANGED <<out, first, run>>

Compile == out.status = "none" /\ out' = compile(spec) /\ UNCHANGED <<spec, first, run>>

Recompile ==
  /\ out.status = "ok" /\ first = Nothing /\ run = <<>>
  /\ first' = out /\ spec' = recipe(spec, out) /\ out' = compile(recipe(spec, out))
  /\ UNCHANGED run

(* A run's override: an id that is not declared is ignored.                *)
apply_cooperation_override(wanted) ==
  /\ out.status = "ok" /\ run = <<>>
  /\ run' = IF wanted \in {s.id : s \in ToSet(out.structures)} THEN wanted ELSE out.active
  /\ UNCHANGED <<spec, out, first>>

Wanted == {<<"no-coop">>, <<"x">>}

Next ==
  \/ \E e \in Entries : AddEntry(e)
  \/ Compile \/ Recompile
  \/ \E w \in Wanted : apply_cooperation_override(w)

Spec == Init /\ [][Next]_vars

-----------------------------------------------------------------------------
Compiled == out.status = "ok"

(* Two hauliers are connected when no group that holds one of them and not *)
(* the other is free of crossing edges.                                    *)
Connected(edges, a, b) ==
  \A G \in SUBSET Companies : a \in G /\ b \notin G => \E e \in edges : (e[1] \in G) # (e[2] \in G)

(* Both readings of a structure say the same: hauliers share a pool        *)
(* exactly when an edge joins them, and the planner's components are its   *)
(* connected parts.                                                        *)
SharingIsEdgeDirect ==
  Compiled => \A s \in ToSet(out.structures) : \A a, b \in Companies :
    /\ a < b => ((<<a, b>> \in s.edges) <=> \E p \in s.pools : {a, b} \subseteq p.members)
    /\ (\E c \in s.components : {a, b} \subseteq c) <=> Connected(s.edges, a, b)

(* Both names of the baseline are taken by structures with edges.          *)
BaselineShadowed == Cardinality({s.id : s \in ToSet(out.structures)}) < Len(out.structures)

(* Every agent is given out and no haulier gets a whole agent more or less *)
(* than its share: none to a share of 0.  The inserted baseline never      *)
(* becomes the default.  The recipe compiles to the same sharing, and to   *)
(* the same active one.  The run's active structure is one there is.       *)
CooperationSafe ==
  /\ SharingIsEdgeDirect
  /\ Compiled => LET w == normalize_hauliers(spec.shares) IN
       /\ Total(out.fleet) = spec.count
       /\ \A h \in Companies : LET d == out.fleet[h] * Total(w) - w[h] * spec.count IN d < Total(w) /\ d > -Total(w)
       /\ \A h \in Companies : w[h] = 0 => out.fleet[h] = 0
  /\ Compiled /\ first = Nothing /\ spec.active = <<>> /\ spec.entries # <<>> /\ ~ BaselineShadowed =>
       active_structure(out.structures, out.active).edges = declared_structures(spec.entries)[1].edges
  /\ first # Nothing /\ Len(first.structures) = Cardinality({s.id : s \in ToSet(first.structures)}) =>
       /\ Compiled /\ out.fleet = first.fleet
       /\ [i \in DOMAIN out.structures |-> <<out.structures[i].id, out.structures[i].edges>>]
            = [i \in DOMAIN first.structures |-> <<first.structures[i].id, first.structures[i].edges>>]
       /\ active_structure(out.structures, out.active).edges = active_structure(first.structures, first.active).edges
  /\ run # <<>> => run \in {s.id : s \in ToSet(out.structures)}

===============================================================================
