-------------------------------- MODULE Surfaces --------------------------------
(***************************************************************************)
(* Where entries and settings can be seen: the public site, the REST API   *)
(* and the GraphQL plugin, each of which reads the tables in its own way.  *)
(* Writes come through the services, which store what they can read back,  *)
(* and from imported snapshots, whose records are stored as they come: one *)
(* that does not decode fails every list of its table that holds it.       *)
(*                                                                         *)
(* A request is one transaction, and so one step.  Slugs and paths are     *)
(* PublicSite's, pages of a list Listing's.                                *)
(***************************************************************************)
EXTENDS Content

CONSTANTS
  Keys,        \* keys of settings, numbered in the order of ORDER BY id
  TitleKey, ThemeKey,   \* site.title and theme.active, registered as public
  Values,      \* the texts a setting may have, themes among them
  Themes,      \* the ids of the themes that exist
  DefaultTitle, DefaultTheme,
  MenuIds,
  Languages, TitleTexts, Untitled,
  Written, Imported,   \* the rows that services store, and that snapshots bring
  SavedSettings, ImportedSettings, MenuRows,
  Limit,       \* the rows a list returns: 50
  None

\* A row of posts or pages, as it is stored: garbled when it does not decode.
StoredRows == [status : Statuses \cup {""}, visibility : Visibilities \cup {""},
               title : [Languages -> TitleTexts \cup {""}], garbled : BOOLEAN]

\* "" is a value that is not a text, or a blank one.
Settings == [value : Values \cup {""}, public : BOOLEAN, garbled : BOOLEAN]

Menus == [location : {"primary", "footer"}, garbled : BOOLEAN]

Registered == {TitleKey, ThemeKey}

ASSUME SurfacesAssumption ==
  /\ Limit \in Nat \ {0}
  /\ Keys \subseteq Nat /\ IsFiniteSet(Keys)
  /\ Registered \subseteq Keys /\ TitleKey # ThemeKey
  /\ Themes \subseteq Values /\ DefaultTheme \in Themes /\ DefaultTitle \in Values
  /\ "" \notin Values \cup TitleTexts /\ Untitled \notin TitleTexts
  /\ "en" \in Languages
  /\ Written \cup Imported \subseteq StoredRows
  /\ SavedSettings \cup ImportedSettings \subseteq Settings
  /\ \A r \in Written \cup SavedSettings : ~r.garbled
  /\ MenuRows \subseteq Menus
  /\ None \notin StoredRows \cup Settings \cup Menus

VARIABLES
  content,    \* the tables posts and pages
  settings,   \* the table settings
  menus,      \* the table menus
  saved,      \* ghost: the settings that were stored by the service last
  home        \* the front page that was shown last, if nothing changed since

surfaceVars == <<content, settings, menus, saved, home>>

-----------------------------------------------------------------------------
(***************************************************************************)
(* Lists.                                                                  *)
(***************************************************************************)
\* Store.List: the first Limit rows of a table in the order of ids.
FirstRows(table) ==
  {i \in DOMAIN table :
     /\ table[i] # None
     /\ Cardinality({j \in DOMAIN table : j < i /\ table[j] # None}) < Limit}

\* The adapter's list decodes row after row, and fails with the first that it cannot.
Decodes(table) == \A i \in FirstRows(table) : ~table[i].garbled

\* GET /posts and GET /pages, without a status: every row there is.
RestList(k) == FirstRows(content[k])

\* Mutant: pages come first.
RestGetPagesFirst(k, id) ==
  LET homes == {h \in Kinds : content[h][id] # None /\ ~content[h][id].garbled}
  IN  homes # {} /\ k = IF "page" \in homes THEN "page" ELSE "post"

\* GET /posts/{id}: a row that does not decode is not found, and pages come second.
RestGet(k, id) ==
  LET homes == {h \in Kinds : content[h][id] # None /\ ~content[h][id].garbled}
  IN  homes # {} /\ k = IF "post" \in homes THEN "post" ELSE "page"

\* The site, by-slug: what is published and public.
SiteList(k) ==
  {i \in FirstRows(content[k]) :
     content[k][i].status = "published" /\ content[k][i].visibility = "public"}

\* GraphQL reads the stored records and drops those two.
PublicRecords(k) ==
  {i \in FirstRows(content[k]) :
     ~(content[k][i].status = "draft" \/ content[k][i].visibility = "private")}
-----------------------------------------------------------------------------
(***************************************************************************)
(* Settings, menus, titles and themes.                                     *)
(***************************************************************************)
Public == {key \in FirstRows(settings) : settings[key].public}

\* The site takes its title and its theme from the public settings that are listed.
FromPublic(key, default) ==
  IF key \in Public /\ settings[key].value # "" THEN settings[key].value ELSE default

Resolve(theme) == IF theme \in Themes THEN theme ELSE DefaultTheme

\* The menu at a location is the first of the list; none, too, when the list fails.
MenusAt(location) == {m \in FirstRows(menus) : menus[m].location = location}

Primary ==
  IF Decodes(menus) /\ MenusAt("primary") # {}
  THEN CHOOSE m \in MenusAt("primary") : \A n \in MenusAt("primary") : m <= n
  ELSE None

\* The title of an entry: in English, or in any other language that has one, which a
\* range over a map takes in any order; its id, if it has none.
TitlesOf(title) ==
  IF title["en"] # "" THEN {title["en"]}
  ELSE IF \E l \in Languages : title[l] # "" THEN {title[l] : l \in {m \in Languages : title[m] # ""}}
  ELSE {Untitled}

\* The lists the answers of each surface are made of, and the front page of three.
SiteUp == Decodes(settings) /\ Decodes(content["post"])
-----------------------------------------------------------------------------
SurfacesInit ==
  /\ content = [k \in Kinds |-> [i \in Ids |-> None]]
  /\ settings = [key \in Keys |-> None]
  /\ menus = [m \in MenuIds |-> None]
  /\ saved = {}
  /\ home = None

\* Mutant: what is trashed is deleted.
StoreEntryDeleting(k, i, row) ==
  /\ content' = [content EXCEPT ![k] =
       [content[k] EXCEPT ![i] = IF row.status = "trashed" THEN None ELSE row]]
  /\ home' = None
  /\ UNCHANGED <<settings, menus, saved>>

\* A content service stores an entry it decoded from a request, or read before; a
\* snapshot brings whatever it holds.
StoreEntry(k, i, row) ==
  /\ content' = [content EXCEPT ![k] = [content[k] EXCEPT ![i] = row]]
  /\ home' = None
  /\ UNCHANGED <<settings, menus, saved>>

\* Mutant: registered settings are as public as the caller says.
SaveSettingAsSent(key, row) ==
  /\ settings' = [settings EXCEPT ![key] = row]
  /\ saved' = saved \cup {key}
  /\ home' = None
  /\ UNCHANGED <<content, menus>>

\* settings.Save: the registry knows which settings are public.
SaveSetting(key, row) ==
  /\ settings' = [settings EXCEPT ![key] =
       IF key \in Registered THEN [row EXCEPT !.public = TRUE] ELSE row]
  /\ saved' = saved \cup {key}
  /\ home' = None
  /\ UNCHANGED <<content, menus>>

ImportSetting(key, row) ==
  /\ settings' = [settings EXCEPT ![key] = row]
  /\ saved' = saved \ {key}
  /\ home' = None
  /\ UNCHANGED <<content, menus>>

StoreMenu(m, row) ==
  /\ menus' = [menus EXCEPT ![m] = row]
  /\ home' = None
  /\ UNCHANGED <<content, settings, saved>>

\* The front page as it is rendered: a title for each post.
ShowHome ==
  /\ SiteUp
  /\ \E titles \in [SiteList("post") -> TitleTexts \cup {Untitled}] :
       /\ \A i \in SiteList("post") : titles[i] \in TitlesOf(content["post"][i].title)
       /\ home' = [site |-> FromPublic(TitleKey, DefaultTitle),
                   theme |-> Resolve(FromPublic(ThemeKey, DefaultTheme)),
                   menu |-> Primary, titles |-> titles]
  /\ UNCHANGED <<content, settings, menus, saved>>

SurfacesNext ==
  \/ \E k \in Kinds, i \in Ids, row \in Written \cup Imported : StoreEntry(k, i, row)
  \/ \E key \in Keys, row \in SavedSettings : SaveSetting(key, row)
  \/ \E key \in Keys, row \in ImportedSettings : ImportSetting(key, row)
  \/ \E m \in MenuIds, row \in MenuRows : StoreMenu(m, row)
  \/ ShowHome

SurfacesSpec == SurfacesInit /\ [][SurfacesNext]_surfaceVars
-----------------------------------------------------------------------------
(***************************************************************************)
(* Properties.                                                             *)
(***************************************************************************)
\* Types; and the front page always has a theme that exists, whatever is stored.
SurfacesTypeOK ==
  /\ content \in [Kinds -> [Ids -> StoredRows \cup {None}]]
  /\ settings \in [Keys -> Settings \cup {None}]
  /\ menus \in [MenuIds -> Menus \cup {None}]
  /\ saved \subseteq Keys
  /\ home = None \/ (home.theme \in Themes /\ home.site \in Values)

\* The three surfaces read the same rows: what the site shows GraphQL shows, what
\* GraphQL shows is in the REST list, and what is in a REST list can be got by its id,
\* unless it is a page and a post has the id.  So can all that is on a front page, as long
\* as nothing has changed since.
SurfacesAgree ==
  /\ home # None => \A i \in DOMAIN home.titles : i \in PublicRecords("post") /\ RestGet("post", i)
  /\ \A k \in Kinds :
       /\ SiteList(k) \subseteq PublicRecords(k)
       /\ PublicRecords(k) \subseteq RestList(k)
       /\ Decodes(content[k]) => \A i \in RestList(k) :
            RestGet(k, i) \/ (k = "page" /\ RestGet("post", i))

Garbled ==
  {r \in Kinds \X Ids : content[r[1]][r[2]] # None /\ content[r[1]][r[2]].garbled}
    \cup {<<"setting", key>> : key \in {x \in Keys : settings[x] # None /\ settings[x].garbled}}

\* A list that answers fails only when a record that does not decode is imported: no
\* other write, and so no request but an import, brings one into its 50 rows.
OnlyImportsBreakLists ==
  [][Garbled' \subseteq Garbled =>
       /\ \A k \in Kinds : Decodes(content[k]) => Decodes(content[k])'
       /\ SiteUp => SiteUp']_surfaceVars

\* A title or theme that was saved through the service is the one the site has, as long
\* as there are no more settings than a list returns.
SavedSettingsReachSite ==
  Cardinality({key \in Keys : settings[key] # None}) <= Limit =>
    \A key \in saved \cap Registered, default \in Values :
      settings[key].value # "" => FromPublic(key, default) = settings[key].value

\* What is stored is what is shown, and by every surface that may show it.
ShownAsStored == SurfacesTypeOK /\ SurfacesAgree /\ SavedSettingsReachSite
=============================================================================
