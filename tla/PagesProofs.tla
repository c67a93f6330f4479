----------------------------- MODULE PagesProofs -----------------------------
(***************************************************************************)
(* Theorems of Pages, for any number of tabs, columns and theme requests.  *)
(***************************************************************************)
EXTENDS Pages, TLAPS

(* While nothing muddled it, the last click is alone in flight, or it has  *)
(* reached the profile.                                                    *)
LastClick ==
  (last # None /\ ~muddled) =>
    /\ local = tab[last].theme
    /\ \A p, q \in InFlight : p = q
    /\ \A p \in InFlight : /\ post[p].theme = tab[last].theme
                           /\ post[p].at = "loaded" => post[p].seen = account
    /\ (InFlight = {} /\ signedIn /\ account # None) => account = tab[last].theme

PagesInv == PagesTypeOK /\ ChoiceSurvivesReload /\ LastClick

LEMMA PageConstants ==
  /\ NoPost \in Post /\ NoPost.at = "none" /\ None \notin Themes /\ None \notin Tabs
  /\ SystemTheme \in Themes /\ Defaults \subseteq Columns
BY DefaultsAssumption, SystemThemeAssumption, NothingAssumption DEF NoPost, Post

LEMMA PagesInvInit == PagesInit => PagesInv
<1> SUFFICES ASSUME PagesInit PROVE PagesInv
  OBVIOUS
<1>1. PagesTypeOK
  BY PageConstants DEF PagesInit, PagesTypeOK, Tab, Pages
<1>2. ChoiceSurvivesReload /\ LastClick
  BY DEF PagesInit, ChoiceSurvivesReload, LastClick
<1> QED
  BY <1>1, <1>2 DEF PagesInv

LEMMA PageTypesNext == PagesTypeOK /\ [PagesNext]_pagesVars => PagesTypeOK'
<1> SUFFICES ASSUME PagesTypeOK, [PagesNext]_pagesVars PROVE PagesTypeOK'
  OBVIOUS
<1>1. ASSUME NEW t \in Tabs, Load(t) PROVE PagesTypeOK'
  <2>1. ThemeOnLoad \in Themes /\ HiddenOnLoad \subseteq Columns
    BY PageConstants DEF ThemeOnLoad, HiddenOnLoad, PagesTypeOK
  <2> QED
    BY <1>1, <2>1 DEF Load, PagesTypeOK, Tab, Pages
<1>2. ASSUME NEW t \in Tabs, Close(t) PROVE PagesTypeOK'
  BY <1>2 DEF Close, PagesTypeOK, Tab, Pages
<1>3. ASSUME NEW t \in Tabs, NEW c \in Columns, Pick(t, c) PROVE PagesTypeOK'
  <2>1. tab' \in [Tabs -> Tab]
    BY <1>3 DEF Pick, PagesTypeOK, Tab, Pages
  <2> QED
    BY <1>3, <2>1 DEF Pick, PagesTypeOK, Tab
<1>4. ASSUME NEW t \in Tabs, NEW p \in Posts, Toggle(t, p) PROVE PagesTypeOK'
  BY <1>4 DEF Toggle, Other, PagesTypeOK, Tab, Post, Themes
<1>5. ASSUME NEW p \in Posts, LoadUser(p) PROVE PagesTypeOK'
  BY <1>5 DEF LoadUser, PagesTypeOK, Post
<1>6. ASSUME NEW p \in Posts, SetTheme(p) PROVE PagesTypeOK'
  BY <1>6, PageConstants DEF SetTheme, PagesTypeOK, Post
<1>7. ASSUME NEW p \in Posts, LosePost(p) PROVE PagesTypeOK'
  BY <1>7, PageConstants DEF LosePost, PagesTypeOK
<1>8. ASSUME NEW theme \in Themes \cup {None}, Elsewhere(theme) PROVE PagesTypeOK'
  BY <1>8 DEF Elsewhere, PagesTypeOK
<1>9. CASE SignIn \/ SignOut
  BY <1>9 DEF SignIn, SignOut, PagesTypeOK
<1>10. CASE UNCHANGED pagesVars
  BY <1>10 DEF pagesVars, PagesTypeOK
<1> QED
  BY <1>1, <1>2, <1>3, <1>4, <1>5, <1>6, <1>7, <1>8, <1>9, <1>10 DEF PagesNext

LEMMA ChoiceNext ==
  PagesTypeOK /\ ChoiceSurvivesReload /\ [PagesNext]_pagesVars => ChoiceSurvivesReload'
<1> SUFFICES ASSUME PagesTypeOK, ChoiceSurvivesReload, [PagesNext]_pagesVars
             PROVE  ChoiceSurvivesReload'
  OBVIOUS
<1>1. ASSUME NEW t \in Tabs, Load(t) PROVE ChoiceSurvivesReload'
  BY <1>1 DEF Load, PagesTypeOK, ChoiceSurvivesReload, HiddenOnLoad, Tab
<1>2. ASSUME NEW t \in Tabs, Close(t) PROVE ChoiceSurvivesReload'
  BY <1>2 DEF Close, PagesTypeOK, ChoiceSurvivesReload, HiddenOnLoad, Tab
<1>3. ASSUME NEW t \in Tabs, NEW c \in Columns, Pick(t, c) PROVE ChoiceSurvivesReload'
  <2>1. /\ \A u \in Tabs \ {t} : tab'[u] = tab[u]
        /\ saved' = tab'[t].hidden
        /\ behind' = {u \in Tabs \ {t} : tab[u].page = "list"}
    BY <1>3 DEF Pick, PagesTypeOK
  <2>2. SUFFICES ASSUME NEW u \in Tabs \ behind', tab'[u].page = "list"
                 PROVE  tab'[u].hidden \cap Defaults = HiddenOnLoad' \cap Defaults
    BY DEF ChoiceSurvivesReload
  <2>3. u = t
    BY <2>1, <2>2
  <2> QED
    BY <2>1, <2>3 DEF HiddenOnLoad
<1>4. ASSUME NEW t \in Tabs, NEW p \in Posts, Toggle(t, p) PROVE ChoiceSurvivesReload'
  BY <1>4 DEF Toggle, PagesTypeOK, ChoiceSurvivesReload, HiddenOnLoad, Tab
<1>5. ASSUME UNCHANGED <<tab, saved, behind>> PROVE ChoiceSurvivesReload'
  BY <1>5 DEF ChoiceSurvivesReload, HiddenOnLoad
<1>6. ASSUME NEW p \in Posts, LoadUser(p) \/ SetTheme(p) \/ LosePost(p)
      PROVE  UNCHANGED <<tab, saved, behind>>
  BY <1>6 DEF LoadUser, SetTheme, LosePost
<1>7. ASSUME NEW theme \in Themes \cup {None}, Elsewhere(theme)
      PROVE  UNCHANGED <<tab, saved, behind>>
  BY <1>7 DEF Elsewhere
<1>8. SignIn \/ SignOut \/ UNCHANGED pagesVars => UNCHANGED <<tab, saved, behind>>
  BY DEF SignIn, SignOut, pagesVars
<1> QED
  BY <1>1, <1>2, <1>3, <1>4, <1>5, <1>6, <1>7, <1>8 DEF PagesNext

LEMMA LastClickNext ==
  PagesTypeOK /\ LastClick /\ [PagesNext]_pagesVars => LastClick'
<1> SUFFICES ASSUME PagesTypeOK, LastClick, [PagesNext]_pagesVars PROVE LastClick'
  OBVIOUS
<1>1. ASSUME NEW t \in Tabs, Load(t) PROVE LastClick'
  BY <1>1 DEF Load, PagesTypeOK, LastClick, InFlight
<1>2. ASSUME NEW t \in Tabs, Close(t) PROVE LastClick'
  BY <1>2 DEF Close, PagesTypeOK, LastClick, InFlight
<1>3. ASSUME NEW t \in Tabs, NEW c \in Columns, Pick(t, c) PROVE LastClick'
  BY <1>3 DEF Pick, PagesTypeOK, LastClick, InFlight, Tab
<1>4. ASSUME NEW t \in Tabs, NEW p \in Posts, Toggle(t, p) PROVE LastClick'
  <2>1. /\ last' = t /\ tab'[t].theme = local' /\ account' = account
        /\ signedIn' = signedIn /\ muddled' = (InFlight # {})
    BY <1>4 DEF Toggle, PagesTypeOK, Tab
  <2>2. SUFFICES ASSUME InFlight = {} PROVE LastClick'
    BY <2>1 DEF LastClick
  <2>3. CASE ~signedIn
    BY <1>4, <2>1, <2>2, <2>3 DEF Toggle, LastClick, InFlight
  <2>4. CASE signedIn
    <3>1. post'[p].at = "sent" /\ post'[p].theme = local'
      BY <1>4, <2>4 DEF Toggle, PagesTypeOK
    <3>2. InFlight' = {p}
      BY <1>4, <2>2, <2>4, <3>1, PageConstants DEF Toggle, InFlight, PagesTypeOK
    <3> QED
      BY <2>1, <3>1, <3>2 DEF LastClick
  <2> QED
    BY <2>3, <2>4 DEF PagesTypeOK
<1>5. ASSUME NEW p \in Posts, LoadUser(p) PROVE LastClick'
  <2>1. p \in InFlight /\ InFlight' = InFlight
    BY <1>5, PageConstants DEF LoadUser, InFlight, PagesTypeOK, Post
  <2> QED
    BY <1>5, <2>1 DEF LoadUser, LastClick, PagesTypeOK, Post, InFlight
<1>6. ASSUME NEW p \in Posts, SetTheme(p) PROVE LastClick'
  <2>1. p \in InFlight /\ InFlight' = InFlight \ {p}
    BY <1>6, PageConstants DEF SetTheme, InFlight, PagesTypeOK, Post
  <2>2. SUFFICES ASSUME last # None, ~muddled PROVE LastClick'
    BY <1>6 DEF SetTheme, LastClick
  <2>3. /\ local = tab[last].theme /\ InFlight' = {}
        /\ post[p].theme = tab[last].theme /\ post[p].seen = account
    BY <1>6, <2>1, <2>2 DEF SetTheme, LastClick
  <2> QED
    BY <1>6, <2>3 DEF SetTheme, LastClick
<1>7. ASSUME NEW p \in Posts, LosePost(p) PROVE LastClick'
  BY <1>7 DEF LosePost, LastClick
<1>8. ASSUME NEW theme \in Themes \cup {None}, Elsewhere(theme) PROVE LastClick'
  BY <1>8 DEF Elsewhere, LastClick
<1>9. CASE SignIn
  BY <1>9 DEF SignIn, LastClick
<1>10. CASE SignOut
  BY <1>10 DEF SignOut, LastClick, InFlight
<1>11. CASE UNCHANGED pagesVars
  BY <1>11 DEF pagesVars, LastClick, InFlight
<1> QED
  BY <1>1, <1>2, <1>3, <1>4, <1>5, <1>6, <1>7, <1>8, <1>9, <1>10, <1>11 DEF PagesNext

LEMMA PagesInvAlways == PagesSpec => []PagesInv
<1>1. PagesInv /\ [PagesNext]_pagesVars => PagesInv'
  BY PageTypesNext, ChoiceNext, LastClickNext DEF PagesInv
<1> QED
  BY <1>1, PagesInvInit, PTL DEF PagesSpec

(* Every state has the types that the module declares. *)
THEOREM PageTypes == PagesSpec => []PagesTypeOK
<1>1. PagesInv => PagesTypeOK
  BY DEF PagesInv
<1> QED
  BY <1>1, PagesInvAlways, PTL

(* A list that is not behind another tab shows the default columns that a  *)
(* reload would (app.js, setupColumnPicker).                               *)
THEOREM ChoicesSurvive == PagesSpec => []ChoiceSurvivesReload
<1>1. PagesInv => ChoiceSurvivesReload
  BY DEF PagesInv
<1> QED
  BY <1>1, PagesInvAlways, PTL

(* The theme of the last click is the one of the next page, unless its     *)
(* request was disturbed (app.js and auth_routes.set_theme).               *)
THEOREM ThemesStick == PagesSpec => []ThemeSticks
<1>1. ASSUME PagesInv, last # None, ~muddled, InFlight = {}
      PROVE  ThemeOnLoad = tab[last].theme
  <2>1. last \in Tabs /\ tab[last].theme \in Themes
    BY <1>1 DEF PagesInv, PagesTypeOK, Tab
  <2>2. /\ local = tab[last].theme
        /\ signedIn /\ account # None => account = tab[last].theme
    BY <1>1 DEF PagesInv, LastClick
  <2> QED
    BY <2>1, <2>2, PageConstants DEF ThemeOnLoad
<1>2. PagesInv => ThemeSticks
  BY <1>1 DEF ThemeSticks
<1> QED
  BY <1>2, PagesInvAlways, PTL
=============================================================================
