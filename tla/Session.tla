------------------------------ MODULE Session ------------------------------
(***************************************************************************)
(* The browser session (frontend/src): the wallet connection               *)
(* (hooks/useWallet.ts, components/NavBar.tsx), the settings kept per      *)
(* wallet (hooks/useSettings.ts, components/SettingsPage.tsx) and the      *)
(* organisation bookmarks kept per wallet (components/OrgBookmarkList.tsx),*)
(* all of them in localStorage.  useWallet() is a hook: the bar (App) and   *)
(* the page under the route each have a key of their own, and only          *)
(* localStorage is shared.  Settings and bookmarks are given the address of *)
(* the bar.  A change of it re-runs the effects that depend on it, before   *)
(* the user can act again.                                                  *)
(***************************************************************************)
EXTENDS Naturals, FiniteSets, Sequences, SequencesExt

CONSTANTS
  SeAddrs,      \* accounts the wallet extension may answer with
  SeOrgs,       \* organisations of the bookmark list, in their default order
  SeMaxPins,    \* MAX_PINS
  SeMaxCalls    \* bound on connect() calls under way together

ASSUME SeAssumption == SeOrgs \in Seq(ToSet(SeOrgs)) /\ SeMaxPins \in Nat

VARIABLES
  seStore,    \* localStorage: wallet, settings, order and pins of each scope
  seKey,      \* publicKey of the bar: {} or {address}
  sePage,     \* publicKey of the page on screen
  seFlags,    \* of the bar: connecting, networkMismatch, install (the install error is shown)
  seCalls,    \* connect() calls under way: who called, stage, address
  seSettings, \* settings, of which the theme stands for all
  seTheme,    \* data-theme of the page
  seOrder,    \* order of the bookmark list
  sePins,     \* pinned organisations
  seMeant,    \* history: the settings last chosen in each scope
  seStale     \* history: the holders of a key after whose last act, or mount, another one acted

seVars == <<seStore, seKey, sePage, seFlags, seCalls, seSettings, seTheme, seOrder, sePins, seMeant, seStale>>

SeScopes == SeAddrs \cup {"anonymous"}
SeThemes == {"system", "dark"}
DEFAULT_SETTINGS == "system"
OrgSet == ToSet(SeOrgs)

\* storageKey: the scope of the settings and of the bookmarks.
scopeOf(key) == IF key = {} THEN "anonymous" ELSE CHOOSE a \in SeAddrs : a \in key

SeInit ==
  /\ seKey \in {{}} \cup {{a} : a \in SeAddrs}
  /\ seStore = [wallet |-> seKey, settings |-> [s \in SeScopes |-> DEFAULT_SETTINGS],
                order |-> [s \in SeScopes |-> <<>>], pins |-> [s \in SeScopes |-> {}]]
  /\ sePage = seKey /\ seStale = {}
  /\ seFlags = [connecting |-> FALSE, mismatch |-> FALSE, install |-> FALSE]
  /\ seCalls = {}
  /\ seSettings = DEFAULT_SETTINGS /\ seTheme = DEFAULT_SETTINGS
  /\ seOrder = <<>> /\ sePins = {}
  /\ seMeant = [s \in SeScopes |-> DEFAULT_SETTINGS]

-----------------------------------------------------------------------------
(* useWallet. *)

NoPrefs == UNCHANGED <<seSettings, seTheme, seOrder, sePins, seMeant>>
seStages == [installed |-> "address", address |-> "network", network |-> "done"]

loadSettings_kept(key, store) == seSettings

\* The effect on [address]: the settings of the new scope are read.
loadSettings(key, store) == store.settings[scopeOf(key)]

\* The effects on [order, storageKey] and [pinned, storageKey]: what the list
\* holds is written under the new scope.
persistBookmarks(key, store) == [store EXCEPT !.order[scopeOf(key)] = seOrder,
                                              !.pins[scopeOf(key)] = sePins]

\* setPublicKey(key) and the effects that follow when the address changes.
setPublicKey(key, store) ==
  /\ seKey' = key
  /\ IF key = seKey THEN seStore' = store /\ UNCHANGED <<seSettings, seTheme>>
     ELSE /\ seStore' = persistBookmarks(key, store)
          /\ seSettings' = loadSettings(key, store) /\ seTheme' = loadSettings(key, store)
  /\ UNCHANGED <<seOrder, sePins, seMeant>>

\* NavBar: what the wallet corner offers.  App passes it no "connecting".
navOffers == CASE seKey # {} -> "disconnect" [] seFlags.install -> "install" [] OTHER -> "connect"

connect(who) ==
  /\ Cardinality(seCalls) < SeMaxCalls
  /\ seCalls' = seCalls \cup {[n |-> IF \E c \in seCalls : c.n = 1 THEN 2 ELSE 1,
                               who |-> who, stage |-> "installed", addr |-> {}]}
  /\ UNCHANGED <<seStore, seKey, sePage, seStale>> /\ NoPrefs

connectWalletClick ==
  /\ navOffers = "connect" /\ connect("bar")
  /\ seFlags' = [connecting |-> TRUE, mismatch |-> FALSE, install |-> FALSE]

\* The page's own button; it shows no flag of the hook.
pageConnectClick == sePage = {} /\ connect("page") /\ UNCHANGED seFlags

\* Not installed, refused, or an exception: the call ends with an error.
connectFails(c) ==
  /\ c \in seCalls /\ seCalls' = seCalls \ {c}
  /\ IF c.who = "bar"
     THEN seFlags' = [seFlags EXCEPT !.connecting = FALSE, !.install = @ \/ c.stage = "installed"]
     ELSE UNCHANGED seFlags
  /\ UNCHANGED <<seStore, seKey, sePage, seStale>> /\ NoPrefs

\* isConnected, then getAddress.
connectStep(c) ==
  /\ c \in seCalls /\ c.stage \in {"installed", "address"}
  /\ \E a \in SeAddrs :
       seCalls' = (seCalls \ {c}) \cup {[c EXCEPT !.stage = seStages[@],
                                                  !.addr = IF c.stage = "address" THEN {a} ELSE {}]}
  /\ UNCHANGED <<seStore, seKey, sePage, seFlags, seStale>> /\ NoPrefs

Holders == {"bar", "page"}

\* getNetwork; the address is kept whatever the network.
connectEnds(c, wrongNetwork) ==
  /\ c \in seCalls /\ c.stage = "network" /\ c.who = "bar" /\ seCalls' = seCalls \ {c}
  /\ seFlags' = [seFlags EXCEPT !.connecting = FALSE, !.mismatch = @ \/ wrongNetwork]
  /\ setPublicKey(c.addr, [seStore EXCEPT !.wallet = c.addr])
  /\ seStale' = {"page"} /\ UNCHANGED sePage

\* The same call of a page, which may have gone meanwhile: the address is stored all the same.
pageConnectEnds(c) ==
  /\ c \in seCalls /\ c.stage = "network" /\ c.who # "bar" /\ seCalls' = seCalls \ {c}
  /\ seStore' = [seStore EXCEPT !.wallet = c.addr]
  /\ sePage' = IF c.who = "page" THEN c.addr ELSE sePage
  /\ seStale' = Holders \ {c.who}
  /\ UNCHANGED <<seKey, seFlags>> /\ NoPrefs

clearWallet_kept == seStore

clearWallet == [seStore EXCEPT !.wallet = {}]

disconnect == /\ navOffers = "disconnect"
              /\ seFlags' = [seFlags EXCEPT !.mismatch = FALSE, !.install = FALSE]
              /\ setPublicKey({}, clearWallet)
              /\ seStale' = {"page"} /\ UNCHANGED <<seCalls, sePage>>

\* Another page is mounted under the route: its useState reads localStorage.
pageMounts == /\ sePage' = seStore.wallet /\ seStale' = seStale \ {"page"}
              /\ seCalls' = {[c EXCEPT !.who = IF @ = "page" THEN "gone" ELSE @] : c \in seCalls}
              /\ UNCHANGED <<seStore, seKey, seFlags>> /\ NoPrefs

\* The page is loaded anew: everything is read back from localStorage.
reload == /\ seKey' = seStore.wallet /\ sePage' = seStore.wallet /\ seStale' = {}
          /\ seSettings' = seStore.settings[scopeOf(seStore.wallet)] /\ seTheme' = seSettings'
          /\ seOrder' = seStore.order[scopeOf(seStore.wallet)]
          /\ sePins' = seStore.pins[scopeOf(seStore.wallet)]
          /\ seCalls' = {}
          /\ seFlags' = [connecting |-> FALSE, mismatch |-> FALSE, install |-> FALSE]
          /\ UNCHANGED <<seStore, seMeant>>

-----------------------------------------------------------------------------
(* useSettings, through SettingsPage: only with a wallet. *)

updateSetting(v) == /\ seKey # {} /\ v # seSettings
                    /\ seSettings' = v /\ seTheme' = v
                    /\ seStore' = [seStore EXCEPT !.settings[scopeOf(seKey)] = v]
                    /\ seMeant' = [seMeant EXCEPT ![scopeOf(seKey)] = v]
                    /\ UNCHANGED <<seKey, sePage, seFlags, seCalls, seOrder, sePins, seStale>>

resetSettings == updateSetting(DEFAULT_SETTINGS)

-----------------------------------------------------------------------------
(* OrgBookmarkList. *)

rankIn(org, order) == IF Contains(order, org) THEN CHOOSE i \in DOMAIN order : order[i] = org
                      ELSE CHOOSE i \in DOMAIN SeOrgs : SeOrgs[i] = org

\* Organisation j comes before k in the saved order, where one that it does not
\* name keeps its default rank; the sort is stable.
applyOrder(j, k, order) == \/ rankIn(SeOrgs[j], order) < rankIn(SeOrgs[k], order)
                           \/ rankIn(SeOrgs[j], order) = rankIn(SeOrgs[k], order) /\ j < k

\* Pinned organisations first, each group in the saved order.
floatPinned(j, k, order, pins) ==
  IF (SeOrgs[j] \in pins) <=> (SeOrgs[k] \in pins) THEN applyOrder(j, k, order) ELSE SeOrgs[j] \in pins

\* The n-th organisation on screen is the one with n - 1 others before it.
sortedOrgs ==
  LET Above(k) == {j \in DOMAIN SeOrgs : floatPinned(j, k, seOrder, sePins)}
  IN [n \in DOMAIN SeOrgs |-> SeOrgs[CHOOSE k \in DOMAIN SeOrgs : Cardinality(Above(k)) = n - 1]]

\* splice: taken out at i, put back at j.
moved(s, i, j) == InsertAt(RemoveAt(s, i), j, s[i])

PersistLists == seStore' = [seStore EXCEPT !.order[scopeOf(seKey)] = seOrder', !.pins[scopeOf(seKey)] = sePins']

\* A drop of i on j starts from what is on screen.
handleDrop(i, j) == /\ i # j
                    /\ seOrder' = moved(sortedOrgs, i, j) /\ sePins' = sePins /\ PersistLists
                    /\ UNCHANGED <<seKey, sePage, seFlags, seCalls, seSettings, seTheme, seMeant, seStale>>

\* An arrow key on a handle swaps two neighbours.
handleHandleKeyDown(i) == \E j \in {i - 1, i + 1} \cap DOMAIN SeOrgs : handleDrop(i, j)

togglePin_uncapped(org) == IF org \in sePins THEN sePins \ {org} ELSE sePins \cup {org}

togglePin(org) == CASE org \in sePins -> sePins \ {org}
                    [] org \notin sePins /\ Cardinality(sePins) < SeMaxPins -> sePins \cup {org}
                    [] OTHER -> sePins

setPins(pins, order) == /\ sePins' = pins /\ seOrder' = order /\ PersistLists
                        /\ UNCHANGED <<seKey, sePage, seFlags, seCalls, seSettings, seTheme, seMeant, seStale>>
pinOrg(org) == setPins(togglePin(org), seOrder)
resetOrder == setPins({}, <<>>)

SeNext == \/ connectWalletClick \/ pageConnectClick \/ disconnect \/ pageMounts \/ reload
          \/ \E c \in seCalls : \/ connectFails(c) \/ connectStep(c) \/ pageConnectEnds(c)
                              \/ \E w \in BOOLEAN : connectEnds(c, w)
          \/ \E v \in SeThemes : updateSetting(v)
          \/ resetSettings
          \/ \E i, j \in DOMAIN SeOrgs : handleDrop(i, j)
          \/ \E i \in DOMAIN SeOrgs : handleHandleKeyDown(i)
          \/ \E org \in OrgSet : pinOrg(org)
          \/ resetOrder

-----------------------------------------------------------------------------
\* Type invariant; "connecting" only while a call of the bar is under way, no more pins
\* than the limit, and the list on screen is the organisations, each once.
SeTypeOK == /\ seKey \in {{}} \cup {{a} : a \in SeAddrs}
            /\ seSettings \in SeThemes
            /\ seFlags.connecting => \E c \in seCalls : c.who = "bar"
            /\ Cardinality(sePins) <= SeMaxPins
            /\ Len(sortedOrgs) = Len(SeOrgs) /\ ToSet(sortedOrgs) = OrgSet

\* Who connected or disconnected last, and who was mounted since, uses the stored
\* address, so that the next page and the next visit find the wallet the user left,
\* connected or not.  Only a holder that stayed while the other one acted may
\* differ: nothing tells a page that the bar disconnected.
SeKeyIsStored == /\ "bar" \notin seStale => seKey = seStore.wallet
                 /\ "page" \notin seStale => sePage = seStore.wallet

\* Settings follow the wallet: on screen and in effect are those the user last
\* chose under the current address of the bar, and no wallet's settings were changed by
\* connecting, switching or disconnecting.
SeSettingsScoped == /\ seSettings = seMeant[scopeOf(seKey)]
                    /\ seTheme = seSettings
                    /\ seStore.settings = seMeant
=============================================================================
