--------------------------- MODULE WorkspaceHistory ---------------------------
(***************************************************************************)
(* The audit log of a workspace (src/src/workspace-history): what the      *)
(* entry written for an event holds, and what a reader of the entry is     *)
(* shown of it.  Wording is left out: a message is the set of ids it       *)
(* names.                                                                  *)
(***************************************************************************)

CONSTANT Null

\* A row as it is stored in a JSON column.
Json(k, row) == [f \in {"id"} \cup DOMAIN row |-> IF f = "id" THEN k ELSE row[f]]

\* lodash-style get(value, field, null).
Field(value, f) == IF value = Null \/ f \notin DOMAIN value THEN Null ELSE value[f]

Entry(action, workspace, old, new) ==
    [action |-> action, workspace |-> workspace, oldValue |-> old, newValue |-> new]

-------------------------------------------------------------------------------
(* The entries of each kind of event; k is the subject's key.               *)

ItemCreated(w, k, row) == Entry("ITEM_CREATED", w, Null, Json(k, row))
\* Mutant: the row read after the update is logged as the old value.
ItemUpdatedNewTwice(w, k, old, new) == Entry("ITEM_UPDATED", w, Json(k, new), Json(k, new))
ItemUpdated(w, k, old, new) == Entry("ITEM_UPDATED", w, Json(k, old), Json(k, new))
ItemDeleted(w, k, row) == Entry("ITEM_DELETED", w, Json(k, row), Null)

PaymentCreated(w, k, row) == Entry("PAYMENT_CREATED", w, Null, Json(k, row))
PaymentUpdated(w, k, old, new) == Entry("PAYMENT_UPDATED", w, Json(k, old), Json(k, new))
PaymentDeleted(w, k, row) == Entry("PAYMENT_DELETED", w, Json(k, row), Null)

\* An item_tag row holds nothing but the two keys.
ItemTag(i, t) == [itemId |-> i, tagId |-> t]
ItemTagAssigned(w, i, t) == Entry("ITEM_TAG_ASSIGNED", w, Null, ItemTag(i, t))
ItemTagUnassigned(w, i, t) == Entry("ITEM_TAG_UNASSIGNED", w, ItemTag(i, t), Null)

WorkspaceCreated(w, row) == Entry("WORKSPACE_CREATED", w, Null, Json(w, row))
WorkspaceUpdated(w, old, new) == Entry("WORKSPACE_UPDATED", w, Json(w, old), Json(w, new))

TagCreated(w, k, row) == Entry("TAG_CREATED", w, Null, Json(k, row))
TagUpdated(w, k, old, new) == Entry("TAG_UPDATED", w, Json(k, old), Json(k, new))
TagDeleted(w, k, row) == Entry("TAG_DELETED", w, Json(k, row), Null)

ItemExtracted(w, source, extracted) ==
    Entry("ITEM_EXTRACTED", w, [extractedItem |-> Null, sourceItem |-> source],
          [extractedItem |-> extracted, sourceItem |-> source])

ItemMerged(w, host, merging, result) ==
    Entry("ITEM_MERGED", w, [hostItem |-> host, mergingItem |-> merging],
          [hostItem |-> result, mergingItem |-> Null])

\* formatStakes: no stakes are stored as null.
StakesOrNull(stakes) == IF DOMAIN stakes = {} THEN Null ELSE stakes

ItemStakesChanged(w, k, oldRule, oldStakes, newRule, newStakes) ==
    Entry("ITEM_STAKES_CHANGED", w,
          [itemId |-> k, stakeRule |-> oldRule, stakes |-> StakesOrNull(oldStakes)],
          [itemId |-> k, stakeRule |-> newRule, stakes |-> StakesOrNull(newStakes)])

-------------------------------------------------------------------------------
(* What a reader is shown.                                                  *)

\* The whitelisted fields that differ, each with its old and its new value.
Diff(old, new, keys) ==
    {<<f, Field(old, f), Field(new, f)>> : f \in {f \in keys : Field(old, f) # Field(new, f)}}

\* The fields of a diff by action; there is no diff for an extracted item.  The
\* title stands for every column a client sets (color, currency, cost, date).
DiffKeys == [
    ITEM_CREATED |-> {"title"}, ITEM_UPDATED |-> {"title"}, ITEM_DELETED |-> {"title"},
    PAYMENT_CREATED |-> {"title"}, PAYMENT_UPDATED |-> {"title"}, PAYMENT_DELETED |-> {"title"},
    ITEM_TAG_ASSIGNED |-> {"itemId", "tagId"}, ITEM_TAG_UNASSIGNED |-> {"itemId", "tagId"},
    TAG_CREATED |-> {"title"}, TAG_UPDATED |-> {"title"}, TAG_DELETED |-> {"title"},
    WORKSPACE_CREATED |-> {"title", "stakeRule"}, WORKSPACE_UPDATED |-> {"title", "stakeRule"},
    ITEM_STAKES_CHANGED |-> {"stakeRule", "stakes"}]

HasChanges(e) == e.action \in DOMAIN DiffKeys \cup {"ITEM_MERGED"}

MergedItemDiff(old, new) ==
    UNION {Diff(old[side], new[side], {"title"}) : side \in {"hostItem", "mergingItem"}}

Changes(e) ==
    IF e.action = "ITEM_MERGED" THEN MergedItemDiff(e.oldValue, e.newValue)
    ELSE Diff(e.oldValue, e.newValue, DiffKeys[e.action])

\* The ids the message names; 'unknown' is Null.
Named(e) ==
    CASE e.action \in {"ITEM_CREATED", "PAYMENT_CREATED", "TAG_CREATED", "WORKSPACE_CREATED"}
            -> {Field(e.newValue, "id")}
      [] e.action = "ITEM_TAG_ASSIGNED"
            -> {Field(e.newValue, "itemId"), Field(e.newValue, "tagId")}
      [] e.action = "ITEM_TAG_UNASSIGNED"
            -> {Field(e.oldValue, "itemId"), Field(e.oldValue, "tagId")}
      [] e.action = "ITEM_MERGED"
            -> {Field(e.oldValue.mergingItem, "id"), Field(e.newValue.hostItem, "id")}
      [] e.action = "ITEM_EXTRACTED"
            -> {Field(e.newValue.extractedItem, "id"), Field(e.oldValue.sourceItem, "id")}
      [] e.action = "ITEM_STAKES_CHANGED" -> {Field(e.oldValue, "itemId")}
      [] OTHER -> {Field(e.oldValue, "id")}
===============================================================================
