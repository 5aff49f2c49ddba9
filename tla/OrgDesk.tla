------------------------------- MODULE OrgDesk -------------------------------
(***************************************************************************)
(* The organisation page and its API (app/api/organizations/route.ts).  A  *)
(* new organisation is refused below the third level by a query and stored *)
(* by another one; an update may put an organisation anywhere; a deletion  *)
(* is three statements.  Rows are marked inactive and never removed.       *)
(***************************************************************************)
EXTENDS Desk

CONSTANTS
  OrgIds,    \* ids organizations hands out, numbers from 1
  Holdings,  \* assets that may belong to an organisation
  OrgSlots   \* bound: requests in work at the same time, numbers

OrgRows == [parent : OrgIds \cup {Nil}, active : BOOLEAN]

ASSUME OrgAssumption ==
  /\ IsFiniteSet(OrgIds) /\ OrgIds = 1..Cardinality(OrgIds) /\ OrgSlots \subseteq Nat
  /\ Nil \notin OrgIds \cup OrgRows

VARIABLES
  orgs,      \* organizations: [parent, active], or Nil
  orgOf,     \* assets: org_id
  orgPage,   \* rows shown, expanded nodes, the form, the role
  orgLoads,  \* answers of GET /api/organizations on their way
  orgCall,   \* the request in work in a slot
  moved      \* history: an update gave an organisation another parent

orgVars == <<orgs, orgOf, orgPage, orgLoads, orgCall, moved>>

OrgIdle == [at |-> "idle"]
OrgsIn(rows) == {o \in OrgIds : rows[o] # Nil}
MaxLevel == 3

\* The parent of o among the rows, Nil where the climb ends.
Over(rows, o) == IF o = Nil THEN Nil
                 ELSE IF rows[o].parent \in OrgsIn(rows) THEN rows[o].parent ELSE Nil

\* o and what is above it.  A climb as long as the table never ends: a cycle.
Climb(rows, o) ==
  LET up[k \in 0..Cardinality(OrgIds)] == IF k = 0 THEN o ELSE Over(rows, up[k - 1])
  IN up
Level(rows, o) ==
  LET up == Climb(rows, o) IN Cardinality({k \in DOMAIN up : up[k] # Nil})
Above(rows, o) == LET up == Climb(rows, o) IN {up[k] : k \in DOMAIN up \ {0}} \ {Nil}
Circular(rows, o) == Climb(rows, o)[Cardinality(OrgIds)] # Nil

\* GET lists the active rows.
ActiveOrgs == [o \in OrgIds |-> IF orgs[o] # Nil /\ orgs[o].active THEN orgs[o] ELSE Nil]

\* Some trees are there and the assets belong to the newest organisation; the page has
\* loaded, its role has not been answered yet.
OrgInit ==
  /\ \E n \in 0..(Cardinality(OrgIds) - 1) :
       \E p \in [1..n -> OrgIds \cup {Nil}] :
         /\ \A o \in 1..n : p[o] \in {Nil} \cup 1..(o - 1)
         /\ orgs = [o \in OrgIds |->
                      IF o <= n THEN [parent |-> p[o], active |-> TRUE] ELSE Nil]
         /\ \A o \in 1..n : Level(orgs, o) <= MaxLevel
         /\ orgOf = [h \in Holdings |-> IF n = 0 THEN Nil ELSE n]
  /\ \E admin \in BOOLEAN :
       orgPage = [shown |-> ActiveOrgs, open |-> OrgsIn(ActiveOrgs), form |-> Nil,
                  role |-> "readonly", admin |-> admin]
  /\ orgLoads = {}
  /\ orgCall = [s \in OrgSlots |-> OrgIdle]
  /\ moved = FALSE

-----------------------------------------------------------------------------
(* The page.                                                               *)

OrgLoad == orgLoads' = orgLoads \cup {ActiveOrgs}

OrgRefresh ==
  /\ Act
  /\ OrgLoad
  /\ UNCHANGED <<orgs, orgOf, orgPage, orgCall, moved>>

\* An answer unfolds the whole tree.
OrgArrive(rows) ==
  /\ rows \in orgLoads
  /\ orgPage' = [orgPage EXCEPT !.shown = rows, !.open = OrgsIn(rows)]
  /\ orgLoads' = orgLoads \ {rows}
  /\ UNCHANGED <<orgs, orgOf, orgCall, moved, deskVars>>

\* GET /api/auth, asked for when the page opens.
RoleArrives ==
  /\ orgPage.role = "readonly" /\ orgPage.admin
  /\ orgPage' = [orgPage EXCEPT !.role = "admin"]
  /\ UNCHANGED <<orgs, orgOf, orgLoads, orgCall, moved, deskVars>>

\* buildTree and TreeItem: a node hangs below its parent when that is shown, and is
\* on the page when all above it are unfolded; the nodes of a cycle hang nowhere.
OnTree(o) == /\ o \in OrgsIn(orgPage.shown)
             /\ ~Circular(orgPage.shown, o)
             /\ Above(orgPage.shown, o) \subseteq orgPage.open

ToggleExpand(o) ==
  /\ Act
  /\ OnTree(o) /\ \E c \in OrgsIn(orgPage.shown) : Over(orgPage.shown, c) = o
  /\ orgPage' = [orgPage EXCEPT !.open = IF o \in @ THEN @ \ {o} ELSE @ \cup {o}]
  /\ UNCHANGED <<orgs, orgOf, orgLoads, orgCall, moved>>

\* The header's button, for an administrator; the one of a node, down to the second
\* level; the pencil of a node.
OrgForms ==
  {[id |-> Nil, parent |-> Nil] : x \in {r \in {"admin"} : orgPage.role = r}}
  \cup {[id |-> Nil, parent |-> o] :
          o \in {x \in OrgIds : OnTree(x) /\ Level(orgPage.shown, x) <= 2}}
  \cup {[id |-> o, parent |-> orgPage.shown[o].parent] : o \in {x \in OrgIds : OnTree(x)}}

OpenOrgForm ==
  /\ Act
  /\ orgPage.form = Nil
  /\ \E f \in OrgForms : orgPage' = [orgPage EXCEPT !.form = f]
  /\ UNCHANGED <<orgs, orgOf, orgLoads, orgCall, moved>>

CloseOrgForm ==
  /\ Act
  /\ orgPage.form # Nil
  /\ orgPage' = [orgPage EXCEPT !.form = Nil]
  /\ UNCHANGED <<orgs, orgOf, orgLoads, orgCall, moved>>

\* The select of the form offers what the page shows, except the row itself; the
\* parent the form was opened with stays when it is not offered.
ParentChoices == {Nil, orgPage.form.parent} \cup (OrgsIn(orgPage.shown) \ {orgPage.form.id})

OrgSend(s, call) ==
  /\ s \in OrgSlots /\ orgCall[s] = OrgIdle
  /\ \A o \in OrgSlots : orgCall[o] = OrgIdle => s <= o
  /\ orgCall' = [orgCall EXCEPT ![s] = call]

\* handleSave does not wait for the answer of an earlier click.  Everything but the
\* parent is data, except that the API refuses a name of blanks.
SaveOrg(s, parent, named) ==
  /\ Act
  /\ orgPage.form # Nil
  /\ parent \in ParentChoices
  /\ OrgSend(s, [op |-> IF orgPage.form.id = Nil THEN "create" ELSE "update", at |-> "asked",
                 id |-> orgPage.form.id, parent |-> parent, named |-> named])
  /\ orgPage' = [orgPage EXCEPT !.form.parent = parent]
  /\ UNCHANGED <<orgs, orgOf, orgLoads, moved>>

DeleteOrg(s, o) ==
  /\ Act
  /\ orgPage.form = Nil
  /\ OrgSend(s, [op |-> "delete", at |-> "asked", id |-> o, parent |-> Nil, named |-> TRUE])
  /\ OnTree(o)
  /\ UNCHANGED <<orgs, orgOf, orgPage, orgLoads, moved>>

\* Only a success closes the form and loads again.
OrgAnswer(s) ==
  LET c == orgCall[s] IN
  /\ c.at \in {"done", "refused"}
  /\ orgCall' = [orgCall EXCEPT ![s] = OrgIdle]
  /\ IF c.at = "done"
       THEN /\ OrgLoad
            /\ orgPage' = [orgPage EXCEPT !.form = IF c.op = "delete" THEN @ ELSE Nil]
       ELSE UNCHANGED <<orgLoads, orgPage>>
  /\ UNCHANGED <<orgs, orgOf, moved, deskVars>>

-----------------------------------------------------------------------------
(* The API.                                                                *)

OrgTo(s, at) == orgCall' = [orgCall EXCEPT ![s].at = at]

\* What the handlers look at before they touch the table.
AdmitOrg(s) ==
  LET c == orgCall[s] IN
  /\ c.at = "asked"
  /\ OrgTo(s, IF \/ ~orgPage.admin
                 \/ ~c.named
                 \/ c.op = "update" /\ c.parent = c.id THEN "refused"
              ELSE IF c.op = "create" /\ c.parent # Nil THEN "depth"
              ELSE IF c.op = "delete" THEN "children" ELSE "write")
  /\ UNCHANGED <<orgs, orgOf, orgPage, orgLoads, moved, deskVars>>

\* Faulty variant, for testing the properties: one level too many.
TooDeepOffByOne(p) == Circular(orgs, p) \/ Level(orgs, p) > MaxLevel

\* The recursive query climbs from the new parent; on a cycle it runs into the
\* statement timeout.  Inactive rows count.
TooDeep(p) == Circular(orgs, p) \/ Level(orgs, p) >= MaxLevel

CheckDepth(s) ==
  LET c == orgCall[s] IN
  /\ c.at = "depth"
  /\ OrgTo(s, IF TooDeep(c.parent) THEN "refused" ELSE "write")
  /\ UNCHANGED <<orgs, orgOf, orgPage, orgLoads, moved, deskVars>>

InsertOrg(s) ==
  LET c == orgCall[s] IN
  /\ c.at = "write" /\ c.op = "create"
  /\ \E o \in OrgIds :
       /\ orgs[o] = Nil /\ \A x \in OrgIds : orgs[x] = Nil => o <= x
       /\ orgs' = [orgs EXCEPT ![o] = [parent |-> c.parent, active |-> TRUE]]
  /\ OrgTo(s, "done")
  /\ UNCHANGED <<orgOf, orgPage, orgLoads, moved, deskVars>>

UpdateOrg(s) ==
  LET c == orgCall[s] IN
  /\ c.at = "write" /\ c.op = "update"
  /\ moved' = (moved \/ orgs[c.id].parent # c.parent)
  /\ orgs' = [orgs EXCEPT ![c.id].parent = c.parent]
  /\ OrgTo(s, "done")
  /\ UNCHANGED <<orgOf, orgPage, orgLoads, deskVars>>

\* DELETE: the children become roots, the assets belong to nobody, the row goes
\* inactive.  It keeps its own parent.
FreeChildren(s) ==
  /\ orgCall[s].at = "children"
  /\ orgs' = [o \in OrgIds |-> IF orgs[o] # Nil /\ orgs[o].parent = orgCall[s].id
                                 THEN [orgs[o] EXCEPT !.parent = Nil] ELSE orgs[o]]
  /\ OrgTo(s, "assets")
  /\ UNCHANGED <<orgOf, orgPage, orgLoads, moved, deskVars>>

FreeAssets(s) ==
  /\ orgCall[s].at = "assets"
  /\ orgOf' = [a \in Holdings |-> IF orgOf[a] = orgCall[s].id THEN Nil ELSE orgOf[a]]
  /\ OrgTo(s, "deactivate")
  /\ UNCHANGED <<orgs, orgPage, orgLoads, moved, deskVars>>

Deactivate(s) ==
  /\ orgCall[s].at = "deactivate"
  /\ orgs' = [orgs EXCEPT ![orgCall[s].id].active = FALSE]
  /\ OrgTo(s, "done")
  /\ UNCHANGED <<orgOf, orgPage, orgLoads, moved, deskVars>>

\* A statement fails: what the earlier ones did stays.
OrgFails(s) ==
  /\ Act
  /\ orgCall[s].at \in {"depth", "write", "children", "assets", "deactivate"}
  /\ OrgTo(s, "refused")
  /\ UNCHANGED <<orgs, orgOf, orgPage, orgLoads, moved>>

-----------------------------------------------------------------------------
OrgWork(s) == \/ AdmitOrg(s) \/ CheckDepth(s) \/ InsertOrg(s) \/ UpdateOrg(s)
              \/ FreeChildren(s) \/ FreeAssets(s) \/ Deactivate(s) \/ OrgFails(s)
              \/ OrgAnswer(s)

OrgNext ==
  \/ OrgRefresh \/ RoleArrives \/ OpenOrgForm \/ CloseOrgForm
  \/ \E rows \in orgLoads : OrgArrive(rows)
  \/ \E o \in OrgIds : ToggleExpand(o)
  \/ \E s \in OrgSlots :
       \/ \E p \in OrgIds \cup {Nil}, named \in BOOLEAN : SaveOrg(s, p, named)
       \/ \E o \in OrgIds : DeleteOrg(s, o)
       \/ OrgWork(s)

OrgSpec == DeskInit /\ OrgInit /\ [][OrgNext]_<<orgVars, deskVars>>

OrgTypeOK ==
  /\ orgs \in [OrgIds -> OrgRows \cup {Nil}]
  /\ orgOf \in [Holdings -> OrgIds \cup {Nil}]
  /\ orgPage.open \subseteq OrgIds
  /\ orgPage.role \in {"readonly", "admin"} /\ moved \in BOOLEAN
  /\ \A s \in OrgSlots : orgCall[s].at \in
       {"idle", "asked", "depth", "write", "children", "assets", "deactivate", "done", "refused"}

\* No organisation is deeper than the third level, unless an update moved one
\* (route.ts:49 checks the level of a new organisation only, and in a statement
\* before the one that stores it): deletions and other creations between the two
\* do not lower the new parent, and a deletion only lifts what it frees.
ShallowTree == ~moved => \A o \in OrgsIn(orgs) : Level(orgs, o) <= MaxLevel
=============================================================================
