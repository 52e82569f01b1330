-------------------------- MODULE ProjectChecklist --------------------------
(***************************************************************************)
(* The checklist of a project and the links a person confirms between its   *)
(* items and the documents (app/services/project/checklists.py and          *)
(* app/services/archive/checklist_links.py).  The matching fields of an     *)
(* item, its name, document type and stage, are one value of Match.         *)
(***************************************************************************)
EXTENDS ProjectRecord

\* Mutant: the new item leaves the project version alone.
GrownUnversioned(row) == [row EXCEPT !.rev = @ + 1]
\* The project row after the conditional UPDATE: a new version of its content.
Grown(row) == [row EXCEPT !.version = @ + 1, !.rev = @ + 1]

\* The conditional UPDATE of projects.version admits one creation per page
\* version, in the transaction that inserts the item.
CreateItem(w) ==
    /\ task[w].pc = "project_page" /\ "create_item" \in Kinds
    /\ LET p == task[w].project
       IN /\ Unlocked(p)
          /\ IF Live(p) /\ projects[p].version = task[w].ver
             THEN \E i \in Item, m \in Match :
                     /\ Fresh(i)
                     /\ items' = [items EXCEPT ![i] =
                                     [project |-> p, version |-> 1, match |-> m]]
                     /\ projects' = [projects EXCEPT ![p] = Grown(@)]
             ELSE UNCHANGED <<items, projects>>
    /\ Finish(w)
    /\ UNCHANGED <<files, links, agent, locks, bounds, observers>>

\* What a client has read of an item, and of a document it may link to it.
OpenItemPage(w) ==
    /\ Accept(w, "edit_item")
    /\ \E i \in {j \in Item : items[j].project # None} :
          Become(w, [Idle EXCEPT !.pc = "item_page", !.item = i,
                        !.project = items[i].project,
                        !.ver = items[i].version, !.match = items[i].match])
    /\ UNCHANGED <<projects, files, checklist, agent, locks, observers>>

OpenLinkPage(w) ==
    /\ Accept(w, "link")
    /\ \E i \in Item, f \in File :
          LET p == items[i].project
          IN /\ p # None /\ Stored(<<p, f>>)
             /\ Become(w, [Idle EXCEPT !.pc = "link_page", !.item = i,
                              !.project = p, !.file = f,
                              !.ver = items[i].version, !.match = items[i].match,
                              !.dver = documents[<<p, f>>].version])
    /\ UNCHANGED <<projects, files, checklist, agent, locks, observers>>

\* The expected version is compared with the loaded row, and so are the new
\* matching fields: task.match stays the loaded value.
ReadItem(w) ==
    /\ task[w].pc = "item_page"
    /\ LET row == items[task[w].item]
       IN IF row.project # None /\ row.version = task[w].ver
          THEN \E m \in Match :
                  Become(w, [task[w] EXCEPT !.pc = "item_updating",
                                !.match = row.match, !.new = m])
          ELSE Finish(w)
    /\ UNCHANGED <<projects, files, checklist, agent, locks, bounds, observers>>

\* Mutant: the confirmed links stay as they are.
InvalidatedNone(i) == links
\* The confirmed links of an item lose their validity.
Invalidated(i) ==
    [l \in Link |-> IF l[2] = i /\ links[l].status = "CONFIRMED"
                    THEN [links[l] EXCEPT !.status = "INVALIDATED"] ELSE links[l]]

\* New matching fields, which end the validity of links.
Rematched(w) == task[w].new # task[w].match

\* Without them everything is left to one flush, which may write the audit row
\* before it updates the item.
AuditItemUpdate(w) ==
    /\ task[w].pc = "item_updating" /\ ~Rematched(w)
    /\ Unlocked(task[w].project)
    /\ Become(w, [task[w] EXCEPT !.pc = "item_audited", !.rows = {task[w].item}])
    /\ UNCHANGED <<projects, files, checklist, agent, locks, bounds, observers>>

\* The item is updated with the loaded version plus one and the columns that
\* differ from what was loaded, before its links; one commit.
CommitItemUpdate(w) ==
    /\ \/ task[w].pc = "item_updating" /\ Rematched(w) /\ Unlocked(task[w].project)
       \/ task[w].pc = "item_audited"
    /\ RowsFree({task[w].item})
    /\ LET i == task[w].item
           changed == Rematched(w)
       IN IF items[i].project # None
          THEN /\ items' = [items EXCEPT ![i].version = task[w].ver + 1,
                               ![i].match = IF changed THEN task[w].new ELSE @]
               /\ links' = IF changed THEN Invalidated(i) ELSE links
               /\ raced' = IF items[i].version = task[w].ver
                           THEN raced ELSE raced \cup {i}
          ELSE UNCHANGED <<items, links, raced>>
    /\ Finish(w)
    /\ UNCHANGED <<projects, files, agent, locks, bounds, drifted>>

\* A deletion takes the links first; its audit row, too, may be written before
\* the item goes.
DeleteItem(w) ==
    /\ Accept(w, "delete_item")
    /\ \E i \in Item :
          /\ items[i].project # None /\ Unlocked(items[i].project)
          /\ RowsFree({l \in Link : l[2] = i})
          /\ Become(w, [Idle EXCEPT !.pc = "item_deleting", !.item = i,
                           !.project = items[i].project, !.rows = {i}])
    /\ UNCHANGED <<projects, files, checklist, agent, locks, observers>>

\* The item and its links in one commit.
CommitItemDeletion(w) ==
    /\ task[w].pc = "item_deleting" /\ RowsFree(task[w].rows)
    /\ LET i == task[w].item
       IN /\ items' = [items EXCEPT ![i] = Gone(@)]
          /\ links' = [l \in Link |-> IF l[2] = i THEN NoLink ELSE links[l]]
    /\ Finish(w)
    /\ UNCHANGED <<projects, files, agent, locks, bounds, observers>>

-----------------------------------------------------------------------------
DocumentAsSeen(w) ==
    LET row == documents[<<task[w].project, task[w].file>>]
    IN row.status = "CONFIRMED" /\ row.version = task[w].dver
ItemAsSeen(w) ==
    LET row == items[task[w].item]
    IN row.project = task[w].project /\ row.version = task[w].ver

Linkable(w) ==
    /\ DocumentAsSeen(w) /\ ItemAsSeen(w)
    /\ links[<<<<task[w].project, task[w].file>>, task[w].item>>].status # "CONFIRMED"

\* Document, item and link are locked in turn, each judged before the next.
CreateLink(w) ==
    /\ task[w].pc = "link_page" /\ Linkable(w)
    /\ Unlocked(task[w].project)
    /\ LET d == <<task[w].project, task[w].file>>
           i == task[w].item
       IN /\ RowsFree({d, i, <<d, i>>})
          /\ links' = [links EXCEPT ![<<d, i>>] =
                           [status |-> "CONFIRMED", basis |-> task[w].match]]
    /\ Finish(w)
    /\ UNCHANGED <<projects, files, items, agent, locks, bounds, observers>>

\* A refused link keeps what it has locked so far, if the row exists at all.
RefuseLink(w) ==
    /\ task[w].pc = "link_page" /\ ~Linkable(w)
    /\ LET d == <<task[w].project, task[w].file>>
           i == task[w].item
           rows == {e \in {d} : Stored(e)}
                   \cup {j \in {i} : DocumentAsSeen(w) /\ items[j].project # None}
                   \cup {l \in {<<d, i>>} : DocumentAsSeen(w) /\ ItemAsSeen(w)}
       IN RowsFree(rows) /\ RefuseKeeping(w, task[w].project, rows)
    /\ UNCHANGED <<projects, files, checklist, agent, locks, bounds, observers>>

DeleteLink(w) ==
    /\ Accept(w, "unlink")
    /\ \E l \in Link :
          /\ links[l].status # "NONE" /\ Unlocked(l[1][1])
          /\ Become(w, [Idle EXCEPT !.pc = "link_deleting", !.item = l[2],
                           !.project = l[1][1], !.file = l[1][2], !.rows = {l}])
    /\ UNCHANGED <<projects, files, checklist, agent, locks, observers>>

\* A link made again since it was read counts as the same row.
CommitLinkDeletion(w) ==
    /\ task[w].pc = "link_deleting" /\ RowsFree(task[w].rows)
    /\ links' = [l \in Link |-> IF l \in task[w].rows THEN NoLink ELSE links[l]]
    /\ Finish(w)
    /\ UNCHANGED <<projects, files, items, agent, locks, bounds, observers>>

-----------------------------------------------------------------------------
\* The fulfilment of an item that list_checklist_items derives: it counts the
\* documents of its project that are confirmed and whose link is.
FulfilledBy(i) ==
    {f \in File : \E d \in {<<items[i].project, f>>} \cap Document :
                     /\ documents[d].status = "CONFIRMED"
                     /\ links[<<d, i>>].status = "CONFIRMED"}

ItemRequest(w) == CreateItem(w) \/ OpenItemPage(w) \/ ReadItem(w) \/ DeleteItem(w)
LinkRequest(w) == OpenLinkPage(w) \/ CreateLink(w) \/ RefuseLink(w) \/ DeleteLink(w)
ChecklistRequest(w) == ItemRequest(w) \/ LinkRequest(w)
ChecklistStep(w) ==
    \/ AuditItemUpdate(w) \/ CommitItemUpdate(w) \/ CommitItemDeletion(w)
    \/ CommitLinkDeletion(w)
=============================================================================
