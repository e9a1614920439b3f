---------------------------- MODULE DeviceSetup ----------------------------
(* The pairing screen: a link that opens the app, a QR code before the     *)
(* camera and the button all start the same pairing, which asks the bridge *)
(* for a device, fetches its animes and only then writes the configuration *)
(* and leaves for the tabs.  Settings unpairs and sends the user back with *)
(* the repair parameter.  A link and a code carry one text, so they are    *)
(* taken from one set; toasts, messages, the camera permission and where   *)
(* the router goes for a link by itself are left out.                      *)
(*                                                                         *)
(* React renders a press before the next event, and what a native event or *)
(* an answer set some time later: until then the handlers of the screen    *)
(* see what was `drawn` last.                                              *)
EXTENDS Naturals

CONSTANTS
  Payloads,    \* the texts that are a pairing payload
  MaxPairing   \* bound: pairings started

ASSUME SetupAssumption == "junk" \notin Payloads /\ "none" \notin Payloads /\ MaxPairing \in Nat

VARIABLES
  route,          \* the tabs, or the setup screen as the launch or a re-pair opened it
  configured,     \* bridge_config has its row
  url,            \* useLinkingURL: the last link the app was opened with
  initialUrl,     \* initialDeepLinkUrlRef of the mounted screen
  handledUrl,     \* lastHandledDeepLinkUrlRef
  scannerVisible, \* isScannerVisible
  loading,        \* isLoading of the screen's usePairDevice
  drawn,          \* isOpen and isBusy as the screen was last rendered with
  scanned,        \* acceptedScanValueRef
  inView,         \* the code before the camera
  pairings,       \* the calls of pair: stage, whether their screen is mounted, what began them
  offered         \* history: the links and codes the user offered and nothing used yet

deviceVars == <<route, configured, url, initialUrl, handledUrl, scannerVisible, loading,
                drawn, scanned, inView, pairings, offered>>

screenVars == <<initialUrl, handledUrl, scannerVisible, loading, drawn, scanned, inView>>

Texts == Payloads \cup {"junk"}
Offers == {"link", "code"} \X Texts
Button == <<"button", "none">>
PairingIds == 1 .. MaxPairing
NoPairing == [stage |-> "none", here |-> FALSE, offer |-> Button]

DeviceTypeOK ==
  /\ route \in {"tabs", "setup", "repair"} /\ configured \in BOOLEAN
  /\ {url, initialUrl, handledUrl, scanned, inView} \subseteq Texts \cup {"none"}
  /\ scannerVisible \in BOOLEAN /\ loading \in BOOLEAN
  /\ drawn \in [open : BOOLEAN, busy : BOOLEAN]
  /\ pairings \in [PairingIds -> [stage : {"none", "asking", "fetching", "saving",
                                           "late", "over"},
                                  here : BOOLEAN, offer : Offers \cup {Button}]]
  /\ offered \subseteq Offers
  /\ route = "tabs" => configured

\* The first route of a launch, with or without a link; the screen was not rendered before.
DeviceInit ==
  /\ configured \in BOOLEAN /\ route = IF configured THEN "tabs" ELSE "setup"
  /\ url \in Texts \cup {"none"} /\ offered = {o \in Offers : o = <<"link", url>>}
  /\ initialUrl = "none" /\ handledUrl = "none"
  /\ scannerVisible = FALSE /\ loading = FALSE /\ drawn = [open |-> FALSE, busy |-> FALSE]
  /\ scanned = "none" /\ inView = "none"
  /\ pairings = [i \in PairingIds |-> NoPairing]

Links(offers) == {o \in offers : o[1] = "link"}

OnSetup == route # "tabs"

\* The screen leaves, and the next one begins anew.
Unmount ==
  /\ initialUrl' = "none" /\ handledUrl' = "none"
  /\ scannerVisible' = FALSE /\ loading' = FALSE /\ drawn' = [open |-> FALSE, busy |-> FALSE]
  /\ scanned' = "none" /\ inView' = "none"

\* A render with what is visible and busy by now.  Closed, the scanner's effect clears its ref
\* and the camera, with what was held before it, is gone.
Draw ==
  /\ drawn' = [open |-> scannerVisible', busy |-> loading']
  /\ IF scannerVisible' THEN UNCHANGED <<scanned, inView>>
     ELSE scanned' = "none" /\ inView' = "none"

----------------------------------------------------------------------------
(* Starting a pairing.                                                     *)

\* submitPairing of values that validate, up to the request of pair.
Submit(offer) ==
  \E i \in PairingIds :
    /\ pairings[i].stage = "none" /\ \A j \in PairingIds : j < i => pairings[j].stage # "none"
    /\ pairings' = [pairings EXCEPT ![i] = [stage |-> "asking", here |-> TRUE, offer |-> offer]]
    /\ loading' = TRUE /\ offered' = offered \ {offer}

\* handleIncomingPairingValue: text that is no payload only warns; a payload hides the scanner
\* and is submitted.
Incoming(offer) ==
  IF offer[2] \in Payloads
  THEN scannerVisible' = FALSE /\ Submit(offer)
  ELSE /\ offered' = offered \ {offer}
       /\ UNCHANGED <<scannerVisible, loading, pairings>>

\* The button, which is disabled while busy and behind the scanner's modal, over values that
\* validate.
HandlePair ==
  /\ OnSetup /\ ~drawn.open /\ ~drawn.busy
  /\ Submit(Button) /\ UNCHANGED scannerVisible /\ Draw
  /\ UNCHANGED <<route, configured, url, initialUrl, handledUrl>>

----------------------------------------------------------------------------
(* Links.                                                                  *)

\* The app is opened with a link; the same one again changes nothing.  Only the last is kept.
LinkOpened(t) ==
  /\ t # url /\ url' = t
  /\ offered' = (offered \ Links(offered)) \cup {<<"link", t>>}
  /\ UNCHANGED <<route, configured, screenVars, pairings>>

\* Mutant: a screen opened to re-pair takes the link it finds.
IsStaleLinkNever(first) == FALSE

\* The link a re-pair finds, or gets first, is taken for the one of the launch.
IsStaleLink(first) == route = "repair" /\ url = first

\* The effect of the mounted screen on the url.
HandleLink ==
  LET first == IF initialUrl = "none" THEN url ELSE initialUrl IN
  /\ OnSetup /\ url \notin {"none", handledUrl}
  /\ initialUrl' = first /\ handledUrl' = url
  /\ IF IsStaleLink(first)
     THEN UNCHANGED <<scannerVisible, loading, pairings, offered>>
     ELSE Incoming(<<"link", url>>)
  /\ UNCHANGED <<route, configured, url, drawn, scanned, inView>>

----------------------------------------------------------------------------
(* The scanner.                                                            *)

OpenScanner ==
  /\ OnSetup /\ ~drawn.open /\ ~scannerVisible
  /\ scannerVisible' = TRUE /\ UNCHANGED loading /\ Draw
  /\ UNCHANGED <<route, configured, url, initialUrl, handledUrl, pairings, offered>>

CloseScanner ==
  /\ OnSetup /\ drawn.open
  /\ scannerVisible' = FALSE /\ UNCHANGED loading /\ Draw /\ offered' = Links(offered)
  /\ UNCHANGED <<route, configured, url, initialUrl, handledUrl, pairings>>

\* The user holds a code before the camera.
ShowCode(t) ==
  /\ OnSetup /\ drawn.open /\ t # inView /\ inView' = t
  /\ offered' = offered \cup {<<"code", t>>}
  /\ UNCHANGED <<route, configured, url, initialUrl, handledUrl, scannerVisible, loading, drawn,
                 scanned, pairings>>

\* The camera reports the code before it, again and again while it is drawn.
BarcodeScanned ==
  /\ OnSetup /\ drawn.open /\ ~drawn.busy /\ inView \notin {"none", scanned}
  /\ scanned' = inView /\ Incoming(<<"code", inView>>)
  /\ UNCHANGED <<route, configured, url, initialUrl, handledUrl, drawn, inView>>

\* What a native event or an answer set is rendered.
Render ==
  /\ OnSetup /\ drawn # [open |-> scannerVisible, busy |-> loading]
  /\ UNCHANGED <<scannerVisible, loading>> /\ Draw
  /\ offered' = IF scannerVisible THEN offered ELSE Links(offered)
  /\ UNCHANGED <<route, configured, url, initialUrl, handledUrl, pairings>>

----------------------------------------------------------------------------
(* pair, until it leaves for the tabs, and the way back.                   *)

At(i, stage) == pairings[i].stage = stage

\* The bridge registered the device, then sent its animes.
PairingProceeds(i) ==
  /\ \/ /\ At(i, "asking")
        /\ pairings' = [pairings EXCEPT ![i].stage = "fetching", ![i].offer = Button]
     \/ At(i, "fetching") /\ pairings' = [pairings EXCEPT ![i].stage = "saving"]
  /\ UNCHANGED <<route, configured, url, screenVars, offered>>

\* A request, a validation or the transaction fails, or the deadline of the write passes while
\* it goes on.  The flag belongs to every call of the screen, whichever ends first.
PairingFails(i) ==
  /\ pairings[i].stage \in {"asking", "fetching", "saving"}
  /\ \E stage \in {"over"} \cup (IF At(i, "saving") THEN {"late"} ELSE {}) :
       pairings' = [pairings EXCEPT ![i] = [NoPairing EXCEPT !.stage = stage]]
  /\ loading' = (loading /\ ~pairings[i].here)
  /\ UNCHANGED <<route, configured, url, initialUrl, handledUrl, scannerVisible, drawn, scanned,
                 inView, offered>>

\* The write of a pairing reported as failed commits or rolls back, and nobody is told.
LateWriteEnds(i) ==
  /\ At(i, "late") /\ configured' \in {configured, TRUE}
  /\ pairings' = [pairings EXCEPT ![i].stage = "over"]
  /\ UNCHANGED <<route, url, screenVars, offered>>

\* persistPairedBridgeConfiguration commits and the router goes to the tabs, also for a call
\* whose screen has gone.
PairingSaves(i) ==
  /\ At(i, "saving") /\ configured' = TRUE /\ route' = "tabs" /\ Unmount
  /\ pairings' = [j \in PairingIds |-> IF j = i THEN [NoPairing EXCEPT !.stage = "over"]
                                       ELSE [pairings[j] EXCEPT !.here = FALSE]]
  /\ UNCHANGED <<url, offered>>

\* The user confirms a re-pair: behind the writes that were queued before it the configuration
\* goes, then the router replaces the tabs.  What was offered before is over.
RePair ==
  /\ route = "tabs" /\ \A i \in PairingIds : ~At(i, "saving") /\ ~At(i, "late")
  /\ configured' = FALSE /\ route' = "repair"
  /\ offered' = {}
  /\ UNCHANGED <<url, screenVars, pairings>>

DeviceNext ==
  \/ HandlePair \/ HandleLink
  \/ OpenScanner \/ CloseScanner \/ BarcodeScanned \/ Render
  \/ \E t \in Texts : LinkOpened(t) \/ ShowCode(t)
  \/ \E i \in PairingIds :
       \/ PairingProceeds(i) \/ PairingFails(i) \/ PairingSaves(i)
       \/ LateWriteEnds(i)
  \/ RePair

DeviceSpec == DeviceInit /\ [][DeviceNext]_deviceVars

----------------------------------------------------------------------------
(* Properties.                                                             *)

\* Every pairing is one the user asked for: a link that was opened and a code that was held
\* before the opened scanner start at most one, however often the effect runs, the camera
\* reports the code and the screen comes back, and a re-pair never pairs by a link from before
\* it (use-setup-screen.ts, use-setup-qr-scanner.ts).
OnlyAskedFor ==
  [][\A i \in PairingIds : (At(i, "none") /\ pairings'[i].stage = "asking")
                             => pairings'[i].offer \in offered \cup {Button}]_deviceVars

============================================================================
