-------------------------------- MODULE Pages --------------------------------
(***************************************************************************)
(* What the pages keep in one browser (app/static/app.js and the head      *)
(* script of app/templates/base.html): the columns hidden in the employee  *)
(* list, in localStorage, and the theme, in localStorage and, by a POST    *)
(* that nothing waits for, in the profile of the signed-in user            *)
(* (app/ui/auth_routes.py).  Several tabs share the storage and the        *)
(* session; each keeps the checkboxes and the theme it was loaded with.    *)
(***************************************************************************)
EXTENDS FiniteSets

CONSTANTS
  Tabs,
  Columns,     \* the optional columns of the list
  Defaults,    \* those whose box is checked in the page the server renders
  SystemTheme, \* what the operating system prefers
  Posts,       \* bound on the theme requests in flight
  None

Themes == {"light", "dark"}

ASSUME DefaultsAssumption == Defaults \subseteq Columns
ASSUME SystemThemeAssumption == SystemTheme \in Themes
ASSUME NothingAssumption == None \notin Themes \cup Tabs

VARIABLES
  saved,     \* localStorage hrsot.cols.employees: the hidden columns; {} also
             \* when nothing is stored, which a load cannot tell apart
  local,     \* localStorage hrsot.theme, or None
  account,   \* the theme of the user's profile, None: follow the system
  signedIn,  \* whether the browser holds a session
  tab,       \* what each tab shows
  post,      \* the theme requests in flight
  behind,    \* list pages loaded before another tab saved its columns
  last,      \* the tab whose toggle was clicked last, until it is loaded again
  muddled    \* theme requests overlapped at that click, or since then one was
             \* lost, a session began, or the profile was changed elsewhere

pagesVars == <<saved, local, account, signedIn, tab, post, behind, last, muddled>>

Pages == {"closed", "login", "list"}
Tab == [page : Pages, theme : Themes, hidden : SUBSET Columns]
Post == [at : {"none", "sent", "loaded"}, theme : Themes, seen : Themes \cup {None}]

NoPost == [at |-> "none", theme |-> SystemTheme, seen |-> None]

InFlight == {p \in Posts : post[p] # NoPost}

(* Broken on purpose: the button unsets the theme instead of turning it. *)
OtherUnset(theme) == IF theme = "dark" THEN None ELSE "dark"

Other(theme) == IF theme = "dark" THEN "light" ELSE "dark"

PagesInit ==
  /\ saved = {} /\ local = None /\ account = None
  /\ signedIn = FALSE
  /\ tab = [t \in Tabs |-> [page |-> "closed", theme |-> SystemTheme, hidden |-> {}]]
  /\ post = [p \in Posts |-> NoPost]
  /\ behind = {} /\ last = None /\ muddled = FALSE

-----------------------------------------------------------------------------
(* Loading a page. *)

(* The profile's theme is rendered into the page; the head script fills in *)
(* only what the server left open, and all of it on the login page.        *)
ThemeOnLoad ==
  IF signedIn /\ account # None THEN account
  ELSE IF local # None THEN local
  ELSE SystemTheme

(* The saved list unchecks boxes and checks none: a column that is off by  *)
(* default is hidden in every page that is loaded.                         *)
HiddenOnLoad == (Columns \ Defaults) \cup saved

Load(t) ==
  /\ tab' = [tab EXCEPT ![t] = [page |-> IF signedIn THEN "list" ELSE "login",
                                 theme |-> ThemeOnLoad,
                                 hidden |-> IF signedIn THEN HiddenOnLoad ELSE {}]]
  /\ behind' = behind \ {t}
  /\ last' = IF last = t THEN None ELSE last
  /\ UNCHANGED <<saved, local, account, signedIn, post, muddled>>

Close(t) ==
  /\ tab[t].page # "closed"
  /\ tab' = [tab EXCEPT ![t].page = "closed", ![t].hidden = {}]
  /\ behind' = behind \ {t}
  /\ last' = IF last = t THEN None ELSE last
  /\ UNCHANGED <<saved, local, account, signedIn, post, muddled>>

(* The profile that comes with a session was out of an earlier click's     *)
(* reach.                                                                  *)
SignIn ==
  /\ ~signedIn
  /\ signedIn' = TRUE /\ muddled' = TRUE
  /\ UNCHANGED <<saved, local, account, tab, post, behind, last>>

SignOut ==
  /\ signedIn
  /\ signedIn' = FALSE
  /\ UNCHANGED <<saved, local, account, tab, post, behind, last, muddled>>

-----------------------------------------------------------------------------
(* The column picker. *)

(* Broken on purpose: the list is taken before the box has changed. *)
PickLate(t, c) ==
  /\ tab[t].page = "list"
  /\ tab' = [tab EXCEPT ![t].hidden = IF c \in @ THEN @ \ {c} ELSE @ \cup {c}]
  /\ saved' = tab[t].hidden
  /\ behind' = {u \in Tabs \ {t} : tab[u].page = "list"}
  /\ UNCHANGED <<local, account, signedIn, post, last, muddled>>

(* Every change stores all the boxes of its own tab. *)
Pick(t, c) ==
  /\ tab[t].page = "list"
  /\ tab' = [tab EXCEPT ![t].hidden = IF c \in @ THEN @ \ {c} ELSE @ \cup {c}]
  /\ saved' = tab'[t].hidden
  /\ behind' = {u \in Tabs \ {t} : tab[u].page = "list"}
  /\ UNCHANGED <<local, account, signedIn, post, last, muddled>>

-----------------------------------------------------------------------------
(* The theme. *)

(* Broken on purpose: what is posted is the theme the click left. *)
ToggleSendsCurrent(t, p) ==
  LET next == Other(tab[t].theme)
  IN /\ tab[t].page # "closed"
     /\ post[p] = NoPost
     /\ tab' = [tab EXCEPT ![t].theme = next]
     /\ local' = next
     /\ post' = IF signedIn THEN [post EXCEPT ![p] = [at |-> "sent", theme |-> tab[t].theme,
                                                      seen |-> None]]
                ELSE post
     /\ last' = t /\ muddled' = (InFlight # {})
     /\ UNCHANGED <<saved, account, signedIn, behind>>

(* The click turns the page, the storage and, without waiting, the profile.*)
(* Without a session the request is refused, and nobody looks.             *)
Toggle(t, p) ==
  LET next == Other(tab[t].theme)
  IN /\ tab[t].page # "closed"
     /\ post[p] = NoPost
     /\ tab' = [tab EXCEPT ![t].theme = next]
     /\ local' = next
     /\ post' = IF signedIn THEN [post EXCEPT ![p] = [at |-> "sent", theme |-> next,
                                                      seen |-> None]]
                ELSE post
     /\ last' = t /\ muddled' = (InFlight # {})
     /\ UNCHANGED <<saved, account, signedIn, behind>>

(* require_ui_user loads the profile ... *)
LoadUser(p) ==
  /\ post[p].at = "sent"
  /\ post' = [post EXCEPT ![p].at = "loaded", ![p].seen = account]
  /\ UNCHANGED <<saved, local, account, signedIn, tab, behind, last, muddled>>

(* ... and the commit writes the theme if it differs from the loaded one. *)
SetTheme(p) ==
  /\ post[p].at = "loaded"
  /\ account' = IF post[p].theme # post[p].seen THEN post[p].theme ELSE account
  /\ post' = [post EXCEPT ![p] = NoPost]
  /\ UNCHANGED <<saved, local, signedIn, tab, behind, last, muddled>>

(* Left behind by a navigation, cut off by the network or by a restart:    *)
(* the catch of the fetch is empty.                                        *)
LosePost(p) ==
  /\ post[p] # NoPost
  /\ post' = [post EXCEPT ![p] = NoPost]
  /\ muddled' = TRUE
  /\ UNCHANGED <<saved, local, account, signedIn, tab, behind, last>>

(* Another device of the user, or another user signing in here. *)
Elsewhere(theme) ==
  /\ account' = theme
  /\ muddled' = TRUE
  /\ UNCHANGED <<saved, local, signedIn, tab, post, behind, last>>

PagesNext ==
  \/ \E t \in Tabs : \/ Load(t) \/ Close(t)
                     \/ \E c \in Columns : Pick(t, c)
                     \/ \E p \in Posts : Toggle(t, p)
  \/ \E p \in Posts : LoadUser(p) \/ SetTheme(p) \/ LosePost(p)
  \/ \E theme \in Themes \cup {None} : Elsewhere(theme)
  \/ SignIn \/ SignOut

PagesSpec == PagesInit /\ [][PagesNext]_pagesVars

-----------------------------------------------------------------------------
PagesTypeOK ==
  /\ saved \in SUBSET Columns
  /\ local \in Themes \cup {None}
  /\ account \in Themes \cup {None}
  /\ signedIn \in BOOLEAN /\ muddled \in BOOLEAN
  /\ tab \in [Tabs -> Tab]
  /\ post \in [Posts -> Post]
  /\ behind \in SUBSET Tabs
  /\ last \in Tabs \cup {None}

(* "Selections are saved to your browser's localStorage": a list that is   *)
(* not behind another tab shows the default columns that a page loaded     *)
(* anew would show, so the next change takes no earlier choice back.  Of   *)
(* the columns that are off by default the code does not keep this much.   *)
ChoiceSurvivesReload ==
  \A t \in Tabs \ behind :
    tab[t].page = "list" =>
      tab[t].hidden \cap Defaults = HiddenOnLoad \cap Defaults

(* "so it follows the account across devices": once the requests of the    *)
(* last click are through, a page that is loaded has the theme on which    *)
(* the click left its own, unless theme requests overlapped or were lost,  *)
(* a session began, or the profile was changed elsewhere.                  *)
ThemeSticks ==
  (last # None /\ ~muddled /\ InFlight = {}) => ThemeOnLoad = tab[last].theme
=============================================================================
