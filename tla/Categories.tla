----------------------------- MODULE Categories -----------------------------
(* Custom categories, the overrides of single transactions and the         *)
(* mappings of imported MCC codes that refer to them. Every D1 statement   *)
(* of a request is a step: what a request found may be gone when it        *)
(* writes, and only foreign keys and the atomic merge batch stand between. *)
EXTENDS FiniteSets

CONSTANTS
    Ids,             \* category ids, each given out once
    Names,
    Transactions,
    Sources,         \* original_category_code values
    SourceOf,        \* [Transactions -> Sources]
    Requests,
    None             \* NULL

ASSUME CategoriesAssumption ==
    /\ SourceOf \in [Transactions -> Sources]
    /\ None \notin Ids \cup Names

VARIABLES
    name,            \* [Ids -> Names \cup {None}], None where there is no row
    used,            \* ids given out so far
    override,        \* transaction_category_overrides
    mapping,         \* category_source_mappings
    request

tables == <<name, used, override, mapping>>
vars == <<name, used, override, mapping, request>>

Existing == {c \in Ids : name[c] # None}
Overridden(c) == {t \in Transactions : override[t] = c}
Mapped(c) == {s \in Sources : mapping[s] = c}

\* resolveEffectiveCategory, None for the imported category
Effective(t) == IF override[t] # None THEN override[t] ELSE mapping[SourceOf[t]]

Init ==
    /\ name = [c \in Ids |-> None]
    /\ used = {}
    /\ override = [t \in Transactions |-> None]
    /\ mapping = [s \in Sources |-> None]
    /\ request = [r \in Requests |-> [pc |-> "answered", status |-> 200]]

Go(r, state) == request' = [request EXCEPT ![r] = state]
Answer(r, status) == Go(r, [pc |-> "answered", status |-> status])
At(r, pc) == request[r].pc = pc

\* UNIQUE (user_id, name)
NameFree(c, n) == \A d \in Ids \ {c} : name[d] # n

\* POST: one INSERT; a taken name aborts it.
CreateCategory(r) ==
    /\ At(r, "answered")
    /\ \E c \in Ids \ used, n \in Names :
         /\ NameFree(c, n)
         /\ name' = [name EXCEPT ![c] = n]
         /\ used' = used \cup {c}
         /\ Answer(r, 201)
    /\ UNCHANGED <<override, mapping>>

\* PUT: the UPDATE of a row that may be gone, then the row is read again.
Rename(r) ==
    /\ At(r, "answered")
    /\ \E c \in used, n \in Names :
         /\ NameFree(c, n)
         /\ name' = [name EXCEPT ![c] = IF name[c] = None THEN None ELSE n]
         /\ Go(r, [pc |-> "renamed", category |-> c])
    /\ UNCHANGED <<used, override, mapping>>

ReadRenamed(r) ==
    /\ At(r, "renamed")
    /\ Answer(r, IF request[r].category \in Existing THEN 200 ELSE 404)
    /\ UNCHANGED tables

\* DELETE: find, count overrides, count mappings, delete
BeginDelete(r) ==
    /\ At(r, "answered")
    /\ \E c \in used :
         IF c \in Existing
         THEN Go(r, [pc |-> "count overrides", category |-> c])
         ELSE Answer(r, 404)
    /\ UNCHANGED tables

CountOverrides(r) ==
    /\ At(r, "count overrides")
    /\ LET c == request[r].category IN
         IF Overridden(c) = {}
         THEN Go(r, [pc |-> "count mappings", category |-> c])
         ELSE Answer(r, 409)
    /\ UNCHANGED tables

CountSourceMappings(r) ==
    /\ At(r, "count mappings")
    /\ LET c == request[r].category IN
         IF Mapped(c) = {}
         THEN Go(r, [pc |-> "delete", category |-> c])
         ELSE Answer(r, 409)
    /\ UNCHANGED tables

DeleteCascades(r) ==                        \* mutant: ON DELETE CASCADE
    /\ At(r, "delete")
    /\ LET c == request[r].category IN
         /\ name' = [name EXCEPT ![c] = None]
         /\ override' = [t \in Transactions |->
                           IF override[t] = c THEN None ELSE override[t]]
         /\ mapping' = [s \in Sources |->
                          IF mapping[s] = c THEN None ELSE mapping[s]]
         /\ Answer(r, 200)
    /\ UNCHANGED used

\* The DELETE, which ON DELETE RESTRICT lets pass
DeleteCategory(r) ==
    /\ At(r, "delete")
    /\ LET c == request[r].category IN
         /\ Overridden(c) = {}
         /\ Mapped(c) = {}
         /\ name' = [name EXCEPT ![c] = None]
    /\ Answer(r, 200)
    /\ UNCHANGED <<used, override, mapping>>

\* ... or aborts: an error that is no CategoryError
DeleteAborted(r) ==
    /\ At(r, "delete")
    /\ \/ Overridden(request[r].category) # {}
       \/ Mapped(request[r].category) # {}
    /\ Answer(r, 500)
    /\ UNCHANGED tables

\* Merge: two finds sent together, answered in either order
BeginMerge(r) ==
    /\ At(r, "answered")
    /\ \E source, target \in used :
         /\ source # target
         /\ Go(r, [pc |-> "find merged", source |-> source, target |-> target,
                   pending |-> {source, target}, found |-> TRUE])
    /\ UNCHANGED tables

FindMerged(r) ==
    /\ At(r, "find merged")
    /\ LET q == request[r] IN
         \E c \in q.pending :
           LET found == q.found /\ c \in Existing IN
           IF q.pending # {c}
           THEN Go(r, [pc |-> "find merged", source |-> q.source, target |-> q.target,
                       pending |-> q.pending \ {c}, found |-> found])
           ELSE IF found
           THEN Go(r, [pc |-> "merge", source |-> q.source, target |-> q.target])
           ELSE Answer(r, 404)
    /\ UNCHANGED tables

Redirected(reference, source, target) ==
    [x \in DOMAIN reference |->
        IF reference[x] = source THEN target ELSE reference[x]]

\* The batch fails as a whole if a moved reference has no target row.
MergePossible(source, target) ==
    target \in Existing \/ Overridden(source) \cup Mapped(source) = {}

MergeResetsMappings(r) ==                   \* mutant: mappings deleted, not moved
    /\ At(r, "merge")
    /\ LET source == request[r].source target == request[r].target IN
         /\ MergePossible(source, target)
         /\ override' = Redirected(override, source, target)
         /\ mapping' = Redirected(mapping, source, None)
         /\ name' = [name EXCEPT ![source] = None]
    /\ Answer(r, 200)
    /\ UNCHANGED used

MergeCategories(r) ==
    /\ At(r, "merge")
    /\ LET source == request[r].source target == request[r].target IN
         /\ MergePossible(source, target)
         /\ override' = Redirected(override, source, target)
         /\ mapping' = Redirected(mapping, source, target)
         /\ name' = [name EXCEPT ![source] = None]
    /\ Answer(r, 200)
    /\ UNCHANGED used

MergeAborted(r) ==
    /\ At(r, "merge")
    /\ ~MergePossible(request[r].source, request[r].target)
    /\ Answer(r, 500)
    /\ UNCHANGED tables

\* PUT of an override or of a mapping: find the category, then write.
BeginAssign(r) ==
    /\ At(r, "answered")
    /\ \E c \in used, x \in Transactions \cup Sources :
         IF c \in Existing
         THEN Go(r, [pc |-> "assign", item |-> x, category |-> c])
         ELSE Answer(r, 404)
    /\ UNCHANGED tables

Write(x, c) ==
    /\ override' = [t \in Transactions |-> IF t = x THEN c ELSE override[t]]
    /\ mapping' = [s \in Sources |-> IF s = x THEN c ELSE mapping[s]]

AssignUnchecked(r) ==                       \* mutant: no foreign key
    /\ At(r, "assign")
    /\ Write(request[r].item, request[r].category)
    /\ Answer(r, 200)
    /\ UNCHANGED <<name, used>>

\* setTransactionOverride, setSourceMapping: the upsert
Assign(r) ==
    /\ At(r, "assign")
    /\ request[r].category \in Existing
    /\ Write(request[r].item, request[r].category)
    /\ Answer(r, 200)
    /\ UNCHANGED <<name, used>>

AssignAborted(r) ==
    /\ At(r, "assign")
    /\ request[r].category \notin Existing
    /\ Answer(r, 500)
    /\ UNCHANGED tables

\* DELETE of an override or of a mapping, after a read that decides nothing
BeginReset(r) ==
    /\ At(r, "answered")
    /\ \E x \in Transactions \cup Sources : Go(r, [pc |-> "reset", item |-> x])
    /\ UNCHANGED tables

Reset(r) ==
    /\ At(r, "reset")
    /\ Write(request[r].item, None)
    /\ Answer(r, 200)
    /\ UNCHANGED <<name, used>>

Serve(r) ==
    \/ CreateCategory(r) \/ Rename(r) \/ ReadRenamed(r)
    \/ BeginDelete(r) \/ CountOverrides(r) \/ CountSourceMappings(r)
    \/ DeleteCategory(r) \/ DeleteAborted(r)
    \/ BeginMerge(r) \/ FindMerged(r) \/ MergeCategories(r) \/ MergeAborted(r)
    \/ BeginAssign(r) \/ Assign(r) \/ AssignAborted(r)
    \/ BeginReset(r) \/ Reset(r)

Next == \E r \in Requests : Serve(r)

Spec == Init /\ [][Next]_vars

-----------------------------------------------------------------------------
TypeInvariant ==
    /\ name \in [Ids -> Names \cup {None}]
    /\ used \subseteq Ids
    /\ override \in [Transactions -> used \cup {None}]
    /\ mapping \in [Sources -> used \cup {None}]
    /\ \A c, d \in Existing : name[c] = name[d] => c = d

\* No override and no mapping refers to a category that is gone, though the
\* request that wrote it found the category some statements earlier.
ReferencesExist ==
    /\ \A t \in Transactions : override[t] \in Existing \cup {None}
    /\ \A s \in Sources : mapping[s] \in Existing \cup {None}

\* README, "atomically move references": the category a transaction shows changes
\* only by a request about that transaction or its source code, or from the
\* source of a merge to its target; never by a deletion, whatever it raced with.
EffectiveStable ==
    [][\A t \in Transactions : Effective(t)' # Effective(t) =>
         \E r \in Requests :
           LET q == request[r] IN
           /\ request'[r] # q
           /\ \/ /\ q.pc \in {"assign", "reset"}
                 /\ q.item \in {t, SourceOf[t]}
              \/ /\ q.pc = "merge"
                 /\ Effective(t) = q.source
                 /\ Effective(t)' = q.target]_vars

\* README, API: "Direct category deletion returns 409 category_referenced while
\* overrides or source mappings still reference it."
ReferencedAnswers409 ==
    [][\A r \in Requests :
         LET q == request[r] IN
         /\ q.pc = "delete"
         /\ request'[r] # q
         /\ Overridden(q.category) \cup Mapped(q.category) # {}
         => request'[r].status = 409]_vars

\* README, API: a merge moves references "into another category". A merge that
\* answers 200 leaves its target in place.
MergeKeepsTarget ==
    [][\A r \in Requests :
         /\ request[r].pc = "merge"
         /\ request'[r] = [pc |-> "answered", status |-> 200]
         => request[r].target \in Existing']_vars
=============================================================================
