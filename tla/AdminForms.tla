------------------------------- MODULE AdminForms -------------------------------
(***************************************************************************)
(* The screens of the admin (internal/appschema) and the actions behind    *)
(* them (pkg/app).  An editor opens the list of posts, or the form of one  *)
(* post, which shows the entry as it was read; the screen stays open, for  *)
(* as long as the editor likes, while others change the entry; the form    *)
(* then posts every field it has, changed or not.                          *)
(*                                                                         *)
(* A request is one transaction, and so one step: what happens within one  *)
(* is ContentRequests.  Of an entry are kept: its title, a text for each   *)
(* locale; its slug; its status; and body, which stands for the fields     *)
(* that are handled alike: content, excerpt, visibility, author, featured  *)
(* media.  Metadata and times are shown, but not taken from a form.        *)
(***************************************************************************)
EXTENDS Content

CONSTANTS
  Editors,
  Locales,     \* "en" among them
  Texts,       \* the non-empty texts of titles and bodies
  SlugJSON,    \* localizedSlugJSON: the JSON that is shown for a slug
  Offered,     \* the statuses an editor chooses from
  SlugTexts,   \* slugs, and what is shown for slugs
  EntryIds,    \* bound: the ids of the entries that are made
  NewEntries,  \* what clients create
  MaxWrites,   \* bound: writes in a behaviour
  NoScreen

NoTitle == [l \in Locales |-> ""]
Titles == [Locales -> Texts \cup {""}]

EntryRows == [kind : Kinds \cup {""}, status : Statuses, slug : SlugTexts \cup {""},
              title : Titles, body : Texts \cup {""}]
Fields == {"title", "slug", "body", "status"}

ASSUME FormsAssumption ==
  /\ "en" \in Locales /\ "" \notin Texts \cup SlugTexts
  \* What is shown for a slug is not empty, and differs from it.  Bound: slugs
  \* outside the domain, wrapped too often, are not opened.
  /\ DOMAIN SlugJSON \subseteq SlugTexts \cup {""}
  /\ \A s \in DOMAIN SlugJSON : SlugJSON[s] \in SlugTexts \ {s}
  /\ Offered \subseteq Statuses
  /\ EntryIds \subseteq Ids
  /\ NewEntries \subseteq EntryRows
  /\ NoEntry \notin EntryRows
  /\ MaxWrites \in Nat

Lists == [view : {"list"}, ids : SUBSET Ids]
Forms == [view : {"form"}, id : Ids, read : EntryRows, shown : EntryRows, typed : SUBSET Fields]

ASSUME ScreenAssumption == NoScreen \notin Lists \cup Forms

VARIABLES
  stored,
  screen,    \* what each editor has open
  changed,   \* ghost: the fields of the entry that changed since the form was opened
  writes     \* writes so far

formVars == <<stored, screen, changed, writes>>

FormsTypeOK ==
  /\ stored \in [Kinds -> [Ids -> EntryRows \cup {NoEntry}]]
  /\ \A k \in Kinds, i \in Ids : stored[k][i] # NoEntry => stored[k][i].kind \in {k, ""}
  /\ screen \in [Editors -> Lists \cup Forms \cup {NoScreen}]
  /\ changed \in [Editors -> SUBSET Fields]
  /\ writes \in 0..MaxWrites
-----------------------------------------------------------------------------
(***************************************************************************)
(* Reading and merging.                                                    *)
(***************************************************************************)
HasForm(e) == screen[e] # NoScreen /\ screen[e].view = "form"

Stored(ts, id) == Get(ts, id, Kinds)

Differing(old, new) == {f \in Fields : old[f] # new[f]}

\* What changes in an entry changes under the forms that show it: form actions
\* reach posts only, and Get finds a post before a page of the same id.
Note(ts) ==
  changed' = [e \in Editors |->
    IF HasForm(e)
    THEN changed[e] \cup Differing(stored["post"][screen[e].id], ts["post"][screen[e].id])
    ELSE changed[e]]

\* Mutant: the title is shown in one language.
ShowsEnglish(row) ==
  [row EXCEPT !.slug = SlugJSON[row.slug], !.title = [NoTitle EXCEPT !["en"] = row.title["en"]]]

\* The values a form starts with: the slug as JSON, which is never empty.
Shows(row) == [row EXCEPT !.slug = SlugJSON[row.slug]]

\* Mutant: an empty body is taken for what the editor wants.
MergePostEntryCleared(old, sent) ==
  [old EXCEPT !.title = sent.title, !.slug = Filled(sent.slug, old.slug),
              !.body = sent.body, !.status = Filled(sent.status, old.status)]

\* A form always carries a title: an empty one replaces the title, too.
MergePostEntry(old, sent) ==
  [old EXCEPT !.title = sent.title,
              !.slug = Filled(sent.slug, old.slug),
              !.body = Filled(sent.body, old.body),
              !.status = Filled(sent.status, old.status)]

\* bindPostEntry: a title typed as plain text is that of one locale, and the only one.
PlainTitle(text) == [NoTitle EXCEPT !["en"] = text]

Typeable(f) ==
  CASE f = "title" -> {PlainTitle(t) : t \in Texts} \cup {NoTitle}
    [] f = "slug" -> DOMAIN SlugJSON
    [] f = "body" -> Texts \cup {""}
    [] f = "status" -> Offered

\* What is empty in a patch is not in it, but for the title.
Patchable(f) == IF f = "title" THEN Typeable(f) ELSE Typeable(f) \ {""}
-----------------------------------------------------------------------------
(***************************************************************************)
(* The screens.                                                            *)
(***************************************************************************)
OpenList(e) ==
  /\ screen[e] = NoScreen
  /\ screen' = [screen EXCEPT ![e] = [view |-> "list", ids |-> Listed(stored["post"])]]
  /\ changed' = [changed EXCEPT ![e] = {}]
  /\ UNCHANGED <<stored, writes>>

\* Mutant: the form of any entry.
OpenFormAny(e, id) ==
  /\ screen[e] = NoScreen
  /\ Found(stored, id, Kinds)
  /\ Stored(stored, id).slug \in DOMAIN SlugJSON
  /\ screen' = [screen EXCEPT ![e] =
       [view |-> "form", id |-> id, read |-> Stored(stored, id),
        shown |-> Shows(Stored(stored, id)), typed |-> {}]]
  /\ changed' = [changed EXCEPT ![e] = {}]
  /\ UNCHANGED <<stored, writes>>

\* hydratePostForm: the entry must be a post.
OpenForm(e, id) ==
  /\ screen[e] = NoScreen
  /\ Found(stored, id, Kinds)
  /\ Stored(stored, id).kind = "post"
  /\ Stored(stored, id).slug \in DOMAIN SlugJSON
  /\ screen' = [screen EXCEPT ![e] =
       [view |-> "form", id |-> id, read |-> Stored(stored, id),
        shown |-> Shows(Stored(stored, id)), typed |-> {}]]
  /\ changed' = [changed EXCEPT ![e] = {}]
  /\ UNCHANGED <<stored, writes>>

\* Bound: one field is changed in a form.
Type(e, f, value) ==
  /\ HasForm(e) /\ screen[e].typed = {}
  /\ screen' = [screen EXCEPT ![e].shown = [@ EXCEPT ![f] = value], ![e].typed = {f}]
  /\ UNCHANGED <<stored, changed, writes>>

Close(e) ==
  /\ screen[e] # NoScreen
  /\ screen' = [screen EXCEPT ![e] = NoScreen]
  /\ changed' = [changed EXCEPT ![e] = {}]
  /\ UNCHANGED <<stored, writes>>
-----------------------------------------------------------------------------
(***************************************************************************)
(* The actions behind the screens.                                         *)
(***************************************************************************)
\* post.update
Submit(e) ==
  /\ HasForm(e)
  /\ writes < MaxWrites /\ writes' = writes + 1
  /\ LET id == screen[e].id IN
       /\ Found(stored, id, Kinds)
       /\ Stored(stored, id).kind = "post"
       /\ stored' = Save(stored, id, MergePostEntry(Stored(stored, id), screen[e].shown))
  /\ screen' = [screen EXCEPT ![e] = NoScreen]
  /\ Note(stored')

\* A row of the list offers post.trash, which takes whatever has the id.
TrashRow(e, id) ==
  /\ writes < MaxWrites /\ writes' = writes + 1
  /\ screen[e] # NoScreen /\ screen[e].view = "list" /\ id \in screen[e].ids
  /\ Found(stored, id, Kinds)
  /\ stored' = Save(stored, id, [Stored(stored, id) EXCEPT !.status = "trashed"])
  /\ screen' = [screen EXCEPT ![e] = NoScreen]
  /\ Note(stored')

(***************************************************************************)
(* Everybody else: the REST API, and actions sent as JSON, change single   *)
(* fields; creates, imports and the seed write a whole row over what is    *)
(* there, the latter two without a kind.                                   *)
(***************************************************************************)
Patch(id, f, value) ==
  /\ writes < MaxWrites /\ writes' = writes + 1
  /\ Found(stored, id, Kinds)
  /\ stored' = Save(stored, id, [Stored(stored, id) EXCEPT ![f] = value])
  /\ Note(stored')
  /\ UNCHANGED screen

Write(k, id, row) ==
  /\ writes < MaxWrites /\ writes' = writes + 1
  /\ row.kind \in {k, ""}
  /\ stored' = [stored EXCEPT ![k] = [stored[k] EXCEPT ![id] = row]]
  /\ Note(stored')
  /\ UNCHANGED screen

FormsInit ==
  /\ stored = [k \in Kinds |-> [i \in Ids |-> NoEntry]]
  /\ screen = [e \in Editors |-> NoScreen]
  /\ changed = [e \in Editors |-> {}]
  /\ writes = 0

EditorStep(e) ==
  \/ OpenList(e)
  \/ \E id \in Ids : OpenForm(e, id)
  \/ \E f \in Fields : \E v \in Typeable(f) : Type(e, f, v)
  \/ Submit(e)
  \/ \E id \in Ids : TrashRow(e, id)
  \/ Close(e)

FormsNext ==
  \/ \E e \in Editors : EditorStep(e)
  \/ \E id \in Ids, f \in Fields : \E v \in Patchable(f) : Patch(id, f, v)
  \/ \E k \in Kinds, id \in EntryIds, row \in NewEntries : Write(k, id, row)

FormsSpec == FormsInit /\ [][FormsNext]_formVars
-----------------------------------------------------------------------------
(***************************************************************************)
(* Properties.                                                             *)
(***************************************************************************)
\* The editor's step that acts on the screen, or closes it.
Leaves(e) == screen[e] # NoScreen /\ screen'[e] = NoScreen

\* Types; and whatever a screen offers to act on is still a post, however long the screen
\* has been open: no row is ever deleted, and pages with the same id do not come before it.
ScreensStayTrue ==
  /\ FormsTypeOK
  /\ \A e \in Editors : screen[e] # NoScreen =>
       \A i \in IF HasForm(e) THEN {screen[e].id} ELSE screen[e].ids :
         stored["post"][i] # NoEntry

\* The screens are those of posts, although post.trash does not look at the kind: no
\* editor changes a page, not even one that has the id of a post.
EditorsTouchPosts == [][\A e \in Editors : Leaves(e) => stored'["page"] = stored["page"]]_formVars

Undone(e, f) ==
  LET old == stored["post"][screen[e].id]  new == stored'["post"][screen[e].id]
  IN  new[f] # old[f] => f \in changed[e] /\ new[f] = screen[e].read[f]

\* Saving a form changes a field that the editor left alone only if others changed it
\* since the form was opened, and then back to what the form was opened with: so may a
\* trashed post be published again.  The slug is the exception: it becomes the JSON that
\* was shown for it, also when nobody has touched it.
OldFormsUndo ==
  [][\A e \in Editors : HasForm(e) /\ Leaves(e) =>
       /\ \A f \in Fields \ (screen[e].typed \cup {"slug"}) : Undone(e, f)
       /\ "slug" \notin screen[e].typed =>
            stored'["post"][screen[e].id].slug
              \in {stored["post"][screen[e].id].slug, SlugJSON[screen[e].read.slug]}]_formVars

\* What an editor clears in a form stays as it was, and the answer is a success: only
\* the title can be emptied.
NothingCleared ==
  [][\A e \in Editors : HasForm(e) /\ Leaves(e) =>
       \A f \in Fields \ {"title"} :
         stored'["post"][screen[e].id][f] = "" => stored["post"][screen[e].id][f] = ""]_formVars

\* What the screens do is what their editors did: they change posts only, undo no more than
\* what others did since, and clear nothing.
SavesAreTheEditors == EditorsTouchPosts /\ OldFormsUndo /\ NothingCleared
=============================================================================
