------------------------------ MODULE MCShareLinks ------------------------------
(* Instances of ShareLinks for TLC. *)
EXTENDS ShareLinks, TLC

\* Browsers, sessions and calls are interchangeable.
Symmetric == Permutations(Devices \ {Null}) \cup Permutations(Sessions)
                \cup Permutations(Opens) \cup Permutations(Requests)

Offer(max, conditions) == [maxViews |-> max, single |-> "device" \in conditions,
                           otp |-> "code" \in conditions, approval |-> "approval" \in conditions]

RacedOffers == {Offer(0, {"device"}), Offer(1, {"device"}), Offer(1, {"device", "approval"})}
GuestOffers == {Offer(0, {"device", "code", "approval"})}
MCOffers    == RacedOffers \cup GuestOffers

OfferOf(l) == [maxViews |-> l.maxViews, single |-> l.single, otp |-> l.otp, approval |-> l.approval]
Started    == Cardinality({s \in Sessions : session[s].exists})

\* Two openings race on one link, each in a browser that names itself; where an approval is
\* waited for they are polls of one session.
Racing == /\ link.exists => OfferOf(link) \in RacedOffers
          /\ link.approval => Started <= 1
          /\ \A q \in Requests : req[q].pc = "idle"
          /\ \A o \in Opens : open[o].pc \notin {"idle", "opened", "dropped"} => open[o].device # Null

\* One opening and the requests of its session, from any browser, which may not name itself.
Guesting == /\ link.exists => OfferOf(link) \in GuestOffers
            /\ Started <= 1
            /\ Cardinality({o \in Opens : open[o].pc # "idle"}) <= 1

Explored == Racing \/ Guesting
=============================================================================
