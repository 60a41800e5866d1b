------------------------- MODULE Certificates_proofs -------------------------
(***************************************************************************)
(* Proofs about the Certificate and CertificateConnector controllers, for  *)
(* any certificates, ingresses, selectors and bounds.                      *)
(*                                                                         *)
(* What an ingress lists was ready in the cache of the connector when it   *)
(* was listed.  The invariant says what that means for all the states that *)
(* the informer has yet to deliver: a certificate of a live object that    *)
(* has ever been ready is issued, and stays ready in every later state     *)
(* unless a pass failed to look it up.                                     *)
(***************************************************************************)
EXTENDS Certificates, Lemmas

Objects == [exists : BOOLEAN, held : BOOLEAN, deleting : BOOLEAN, arn : BOOLEAN,
            ready : BOOLEAN]
Lists == [controlled : BOOLEAN, lists : SUBSET Certs]
States == {"none", "new", "pending", "issued"}
Ensuring == {"ensure", "validate", "status"}
Ending == {"get", "unrecord", "delete", "done"}
Passes == [at : Ensuring \cup Ending, cert : Certs, view : Objects, status : States]
Connects == [at : {"connect"}, wanted : SUBSET Certs, view : [Ingresses -> Lists],
             todo : SUBSET Ingresses]

Types ==
    /\ certs \in Feeds([Certs -> Objects])
    /\ ingresses \in Feeds([Ingresses -> Lists])
    /\ acm \in [Certs -> States]
    /\ pass \in Passes \cup {Idle}
    /\ connector \in Connects \cup {Idle}

\* The states of a certificate's object, from the cached to the stored one:
\* one that is deleted stays so; one that is ready has an arn, and while the
\* object lives the certificate is issued, and ready in the states that
\* follow, unless a pass missed it.
Dead(o) == ~o.exists \/ o.deleting
EverReady(c) == \E j \in 1..Len(certs) : certs[j][c].ready
FeedOrder ==
    \A c \in Certs : \A j \in 1..Len(certs) :
        /\ Dead(certs[j][c]) => ~Live(c)
        /\ certs[j][c].ready => certs[j][c].arn /\ (Live(c) => acm[c] = "issued")
        /\ certs[j][c].ready /\ Live(c) =>
               c \in missed \/ \A k \in j..Len(certs) : certs[k][c].ready

\* What a pass has found is true as long as the object lives, and finalizers
\* run for objects that do not.
PassKnows ==
    /\ pass.at \in {"validate", "status"} /\ Live(pass.cert) =>
           IF pass.status = "issued" THEN acm[pass.cert] = "issued"
           ELSE pass.cert \in missed \/ ~EverReady(pass.cert)
    /\ pass.at = "ensure" => pass.status = "none"
    /\ pass.at \in Ending => ~Live(pass.cert)

\* What is listed, or about to be, is selected, issued and ready, as far as
\* the object lives and no pass missed it; and what a pass of the connector
\* is about to drop does not, or was missed.
Good(c) ==
    /\ c \in Selected(Certs, Selector.certs)
    /\ Live(c) => /\ acm[c] = "issued"
                  /\ c \in missed \/ \A j \in 1..Len(certs) : certs[j][c].ready
ListsGood ==
    /\ \A j \in 1..Len(ingresses) : \A i \in Ingresses :
          \A c \in ingresses[j][i].lists : Good(c)
    /\ connector # Idle =>
           /\ \A c \in connector.wanted : Good(c)
           /\ \A i \in Ingresses : \A c \in connector.view[i].lists \ connector.wanted :
                 ~Live(c) \/ c \in missed

IInv == Types /\ FeedOrder /\ PassKnows /\ ListsGood

-----------------------------------------------------------------------------
(* Steps of the feed of the certificates. *)

\* The feed goes on, without new states; or object c becomes o.
GoesOn ==
    \E m \in 0..(Len(certs) - 1) :
        /\ Len(certs') = Len(certs) - m
        /\ \A j \in 1..Len(certs') : certs'[j] = certs[j + m]

\* A write that says of the certificate what is true.
Legal(c, o) ==
    /\ o \in Objects
    /\ Dead(Object(c)) => Dead(o)
    /\ o.ready => o.arn /\ (~Dead(o) => acm'[c] = "issued")
    /\ ~Dead(o) => o.ready \/ c \in missed' \/ ~EverReady(c)
Writes == \E c \in Certs : \E o \in Objects : Legal(c, o) /\ Write(c, o)

\* ACM keeps what is issued to an object that lives.
Steady ==
    /\ \A c \in Certs : Live(c) /\ acm[c] = "issued" => acm'[c] = "issued"
    /\ missed \subseteq missed'

\* What follows for the certificates: the object may have died, and what was
\* good still is.
Keeps ==
    /\ certs' \in Feeds([Certs -> Objects])
    /\ FeedOrder'
    /\ \A c \in Certs : /\ Live(c)' => Live(c)
                        /\ Good(c) => Good(c)'

LEMMA FeedFacts ==
  ASSUME Types
  PROVE  /\ Len(certs) \in Nat \ {0} /\ Stored(certs) = certs[Len(certs)]
         /\ Cached(certs) = certs[1]
         /\ \A j \in 1..Len(certs) : certs[j] \in [Certs -> Objects]
         /\ \A c \in Certs : /\ Object(c) \in Objects /\ Cached(certs)[c] \in Objects
                             /\ Object(c) = certs[Len(certs)][c]
                             /\ Live(c) <=> ~Dead(Object(c))
<1>1. certs \in Feeds([Certs -> Objects])
  BY DEF Types
<1>2. /\ Len(certs) \in Nat \ {0} /\ Stored(certs) = certs[Len(certs)]
      /\ Cached(certs) = certs[1]
  BY <1>1, FeedEnds
<1>3. \A j \in 1..Len(certs) : certs[j] \in [Certs -> Objects]
  BY <1>1 DEF Feeds
<1>4. QED
  BY <1>2, <1>3 DEF Object, Live, Dead

\* A delivery, and the refreshing of the cache.
LEMMA GoingOn ==
  ASSUME Types
  PROVE  /\ certs' = certs => GoesOn /\ certs' \in Feeds([Certs -> Objects])
         /\ Len(certs) > 1 /\ certs' = Tail(certs) =>
                GoesOn /\ certs' \in Feeds([Certs -> Objects])
         /\ certs' = Refreshed(certs) => GoesOn /\ certs' \in Feeds([Certs -> Objects])
<1>1. certs \in Feeds([Certs -> Objects]) /\ Len(certs) \in Nat \ {0}
  BY FeedFacts DEF Types
<1>2. ASSUME certs' = certs
      PROVE  GoesOn /\ certs' \in Feeds([Certs -> Objects])
  <2>1. /\ 0 \in 0..(Len(certs) - 1) /\ Len(certs') = Len(certs) - 0
        /\ \A j \in 1..Len(certs') : certs'[j] = certs[j + 0]
    BY <1>1, <1>2
  <2>2. QED
    BY <1>1, <1>2, <2>1 DEF GoesOn
<1>3. ASSUME Len(certs) > 1, certs' = Tail(certs)
      PROVE  GoesOn /\ certs' \in Feeds([Certs -> Objects])
  <2>1. /\ 1 \in 0..(Len(certs) - 1) /\ Len(certs') = Len(certs) - 1
        /\ \A j \in 1..Len(certs') : certs'[j] = certs[j + 1]
        /\ certs' \in Feeds([Certs -> Objects])
    BY <1>1, <1>3, DeliverFeed
  <2>2. QED
    BY <2>1 DEF GoesOn
<1>4. ASSUME certs' = Refreshed(certs)
      PROVE  GoesOn /\ certs' \in Feeds([Certs -> Objects])
  <2>1. /\ Len(certs) - 1 \in 0..(Len(certs) - 1)
        /\ Len(certs') = Len(certs) - (Len(certs) - 1)
        /\ \A j \in 1..Len(certs') : certs'[j] = certs[j + (Len(certs) - 1)]
        /\ certs' \in Feeds([Certs -> Objects])
    BY <1>1, <1>4, RefreshFeed, FeedEnds
  <2>2. QED
    BY <2>1 DEF GoesOn
<1>5. QED
  BY <1>2, <1>3, <1>4

\* A feed that goes on keeps everything.
LEMMA GoesOnKeeps ==
  ASSUME Types, FeedOrder, Steady, GoesOn, certs' \in Feeds([Certs -> Objects])
  PROVE  Keeps
<1>1. PICK m \in 0..(Len(certs) - 1) :
          /\ Len(certs') = Len(certs) - m
          /\ \A j \in 1..Len(certs') : certs'[j] = certs[j + m]
  BY DEF GoesOn
<1>2. Len(certs) \in Nat \ {0} /\ Stored(certs) = certs[Len(certs)]
  BY FeedFacts
<1>3. Stored(certs') = certs'[Len(certs')] /\ Len(certs') \in Nat \ {0}
  BY FeedEnds
<1>4. \A j \in 1..Len(certs') : j + m \in 1..Len(certs)
  BY <1>1, <1>2, <1>3
<1>5. Stored(certs') = Stored(certs)
  BY <1>1, <1>2, <1>3
<1>6. \A c \in Certs : Live(c)' <=> Live(c)
  BY <1>5 DEF Live, Object
<1>7. FeedOrder'
  <2> SUFFICES ASSUME NEW c \in Certs, NEW j \in 1..Len(certs')
               PROVE  /\ Dead(certs'[j][c]) => ~Live(c)'
                      /\ certs'[j][c].ready =>
                             certs'[j][c].arn /\ (Live(c)' => acm'[c] = "issued")
                      /\ certs'[j][c].ready /\ Live(c)' =>
                             c \in missed' \/ \A k \in j..Len(certs') : certs'[k][c].ready
    BY DEF FeedOrder, Dead
  <2>1. /\ Dead(certs[j + m][c]) => ~Live(c)
        /\ certs[j + m][c].ready =>
               certs[j + m][c].arn /\ (Live(c) => acm[c] = "issued")
        /\ certs[j + m][c].ready /\ Live(c) =>
               c \in missed \/ \A k \in (j + m)..Len(certs) : certs[k][c].ready
    BY <1>4 DEF FeedOrder
  <2>2. certs'[j] = certs[j + m]
    BY <1>1
  <2>3. \A k \in j..Len(certs') : k + m \in (j + m)..Len(certs) /\ certs'[k] = certs[k + m]
    BY <1>1, <1>2, <1>3
  <2>4. QED
    BY <2>1, <2>2, <2>3, <1>6 DEF Steady
<1>8. \A c \in Certs : Good(c) => Good(c)'
  BY <1>1, <1>4, <1>6 DEF Good, Steady
<1>9. QED
  BY <1>6, <1>7, <1>8 DEF Keeps

\* So does a write that says what is true.
LEMMA WritesKeeps ==
  ASSUME Types, FeedOrder, Steady, Writes
  PROVE  Keeps
<1>1. PICK c \in Certs, o \in Objects : Legal(c, o) /\ Write(c, o)
  BY DEF Writes
<1> DEFINE s == [Stored(certs) EXCEPT ![c] = o]
<1>2. /\ Len(certs) \in Nat \ {0} /\ Stored(certs) = certs[Len(certs)]
      /\ certs \in Feeds([Certs -> Objects]) /\ Stored(certs) \in [Certs -> Objects]
  BY FeedFacts, FeedEnds DEF Types
<1>3. s \in [Certs -> Objects] /\ s[c] = o /\ \A d \in Certs \ {c} : s[d] = Stored(certs)[d]
  BY <1>2
<1> HIDE DEF s
<1>4. /\ certs' \in Feeds([Certs -> Objects]) /\ Stored(certs') = s
      /\ Len(certs') \in {Len(certs), Len(certs) + 1}
      /\ \A j \in 1..Len(certs) : certs'[j] = certs[j]
      /\ certs'[Len(certs')] = s
  <2>1. certs' = Publish(certs, s)
    BY <1>1 DEF Write, s
  <2>2. QED
    BY <1>2, <1>3, <2>1, PublishFeed
<1>5. /\ Object(c)' = o /\ (Live(c)' <=> ~Dead(o))
      /\ \A d \in Certs \ {c} : Object(d)' = Object(d)
  BY <1>3, <1>4 DEF Object, Live, Dead
<1>6. \A d \in Certs : Live(d)' => Live(d)
  BY <1>1, <1>5 DEF Legal, Live, Dead
<1>7. \A d \in Certs \ {c} : /\ Live(d)' <=> Live(d)
                             /\ s[d] = certs[Len(certs)][d]
  BY <1>2, <1>3, <1>5 DEF Live
<1>8. FeedOrder'
  <2> SUFFICES ASSUME NEW d \in Certs, NEW j \in 1..Len(certs')
               PROVE  /\ Dead(certs'[j][d]) => ~Live(d)'
                      /\ certs'[j][d].ready =>
                             certs'[j][d].arn /\ (Live(d)' => acm'[d] = "issued")
                      /\ certs'[j][d].ready /\ Live(d)' =>
                             d \in missed' \/ \A k \in j..Len(certs') : certs'[k][d].ready
    BY DEF FeedOrder, Dead
  <2>1. CASE d # c
    <3>1. PICK i \in 1..Len(certs) :
              /\ certs'[j][d] = certs[i][d]
              /\ \A k \in j..Len(certs') :
                    \E l \in i..Len(certs) : certs'[k][d] = certs[l][d]
      <4>1. CASE j \in 1..Len(certs)
        <5>1. \A k \in j..Len(certs') :
                  \E l \in j..Len(certs) : certs'[k][d] = certs[l][d]
          <6> TAKE k \in j..Len(certs')
          <6>1. CASE k <= Len(certs)
            BY <1>2, <1>4, <4>1, <6>1
          <6>2. CASE k > Len(certs)
            <7>1. k = Len(certs') /\ certs'[k] = s /\ Len(certs) \in j..Len(certs)
              BY <1>2, <1>4, <4>1, <6>2
            <7>2. QED
              BY <7>1, <1>7, <2>1
          <6>3. QED
            BY <1>2, <6>1, <6>2
        <5>2. QED
          BY <1>4, <4>1, <5>1
      <4>2. CASE j \notin 1..Len(certs)
        <5>1. /\ j = Len(certs') /\ certs'[j] = s /\ Len(certs) \in 1..Len(certs)
              /\ \A k \in j..Len(certs') : k = j
          BY <1>2, <1>4, <4>2
        <5>2. certs'[j][d] = certs[Len(certs)][d] /\ Len(certs) \in Len(certs)..Len(certs)
          BY <5>1, <1>2, <1>7, <2>1
        <5>3. QED
          BY <5>1, <5>2
      <4>3. QED
        BY <4>1, <4>2
    <3>2. /\ Dead(certs[i][d]) => ~Live(d)
          /\ certs[i][d].ready => certs[i][d].arn /\ (Live(d) => acm[d] = "issued")
          /\ certs[i][d].ready /\ Live(d) =>
                 d \in missed \/ \A l \in i..Len(certs) : certs[l][d].ready
      BY DEF FeedOrder
    <3>3. QED
      BY <1>7, <2>1, <3>1, <3>2 DEF Steady
  <2>2. CASE d = c /\ j = Len(certs')
    <3>1. certs'[j][d] = o /\ \A k \in j..Len(certs') : k = j
      BY <1>2, <1>3, <1>4, <2>2
    <3>2. QED
      BY <1>1, <1>5, <2>2, <3>1 DEF Legal
  <2>3. CASE d = c /\ j # Len(certs')
    <3>1. j \in 1..Len(certs) /\ certs'[j] = certs[j]
      BY <1>2, <1>4, <2>3
    <3>2. /\ Dead(certs[j][c]) => ~Live(c)
          /\ certs[j][c].ready => certs[j][c].arn /\ (Live(c) => acm[c] = "issued")
          /\ certs[j][c].ready /\ Live(c) =>
                 c \in missed \/ \A l \in j..Len(certs) : certs[l][c].ready
      BY <3>1 DEF FeedOrder
    <3>3. ASSUME certs[j][c].ready, Live(c)', c \notin missed', NEW k \in j..Len(certs')
          PROVE  certs'[k][c].ready
      <4>1. CASE k \in j..Len(certs)
        BY <1>2, <1>4, <1>6, <3>1, <3>2, <3>3, <4>1 DEF Steady
      <4>2. CASE k \notin j..Len(certs)
        <5>1. k = Len(certs') /\ certs'[k][c] = o
          BY <1>2, <1>3, <1>4, <3>1, <4>2
        <5>2. EverReady(c)
          BY <3>1, <3>3 DEF EverReady
        <5>3. QED
          BY <1>1, <1>5, <3>3, <5>1, <5>2 DEF Legal
      <4>3. QED
        BY <4>1, <4>2
    <3>4. QED
      BY <1>6, <2>3, <3>1, <3>2, <3>3 DEF Steady
  <2>4. QED
    BY <2>1, <2>2, <2>3
<1>9. ASSUME NEW d \in Certs, Good(d) PROVE Good(d)'
  <2>1. Live(d)' => acm'[d] = "issued"
    BY <1>6, <1>9 DEF Good, Steady
  <2>2. ASSUME Live(d)', d \notin missed', NEW j \in 1..Len(certs')
        PROVE  certs'[j][d].ready
    <3>1. 1 \in 1..Len(certs) /\ \A i \in 1..Len(certs) : certs[i][d].ready
      BY <1>2, <1>6, <1>9, <2>2 DEF Good, Steady
    <3>2. CASE j \in 1..Len(certs)
      BY <1>4, <3>1, <3>2
    <3>3. CASE j \notin 1..Len(certs)
      <4>1. certs'[j] = s /\ Len(certs) \in 1..Len(certs)
        BY <1>2, <1>4, <3>3
      <4>2. CASE d = c
        BY <1>1, <1>3, <1>5, <2>2, <3>1, <4>1, <4>2 DEF Legal, EverReady
      <4>3. CASE d # c
        BY <1>7, <3>1, <4>1, <4>3
      <4>4. QED
        BY <4>2, <4>3
    <3>4. QED
      BY <3>2, <3>3
  <2>3. QED
    BY <2>1, <2>2, <1>9 DEF Good
<1>10. QED
  BY <1>4, <1>6, <1>8, <1>9 DEF Keeps

\* What a pass knows and what the connector lists survive in a step in which
\* neither of them acts.
LEMMA KeepsPass ==
  ASSUME Types, Steady, PassKnows, Keeps, EverReady(pass.cert)' => EverReady(pass.cert),
         pass # Idle => pass.cert \in Certs, pass' = pass
  PROVE  PassKnows'
<1>1. CASE pass = Idle
  BY <1>1 DEF PassKnows, Idle, Ending
<1>2. CASE pass # Idle
  BY <1>2 DEF PassKnows, Steady, Keeps
<1>3. QED
  BY <1>1, <1>2

LEMMA KeepsLists ==
  ASSUME Types, Steady, ListsGood, Keeps, ingresses' = ingresses,
         connector' \in {connector, Idle}
  PROVE  ListsGood'
<1>1. \A j \in 1..Len(ingresses) : ingresses[j] \in [Ingresses -> Lists]
  BY DEF Types, Feeds
<1>2. \A j \in 1..Len(ingresses) : \A i \in Ingresses : ingresses[j][i].lists \subseteq Certs
  BY <1>1 DEF Lists
<1>3. connector # Idle => /\ connector.wanted \subseteq Certs
                          /\ \A i \in Ingresses : connector.view[i].lists \subseteq Certs
  BY DEF Types, Connects, Lists
<1>4. \A j \in 1..Len(ingresses') : \A i \in Ingresses :
          \A c \in ingresses'[j][i].lists : Good(c)'
  BY <1>2 DEF ListsGood, Keeps
<1>5. connector' # Idle =>
          /\ \A c \in connector'.wanted : Good(c)'
          /\ \A i \in Ingresses : \A c \in connector'.view[i].lists \ connector'.wanted :
                ~Live(c)' \/ c \in missed'
  <2> SUFFICES ASSUME connector' # Idle PROVE connector' = connector /\ connector # Idle
    BY <1>3 DEF ListsGood, Keeps, Steady
  <2> QED
    OBVIOUS
<1>6. QED
  BY <1>4, <1>5 DEF ListsGood

-----------------------------------------------------------------------------
(* Every step keeps the order of the feed. *)

\* A pass, as far as it is one.
LEMMA PassFacts ==
  ASSUME Types, pass # Idle
  PROVE  /\ pass \in Passes /\ pass.cert \in Certs /\ pass.status \in States
         /\ \A at \in Ensuring \cup Ending, st \in States :
                /\ [pass EXCEPT !.at = at] \in Passes
                /\ [pass EXCEPT !.at = at].at = at
                /\ [pass EXCEPT !.at = at].cert = pass.cert
                /\ [pass EXCEPT !.at = at].status = pass.status
                /\ [pass EXCEPT !.at = at, !.status = st] \in Passes
                /\ [pass EXCEPT !.at = at, !.status = st].at = at
                /\ [pass EXCEPT !.at = at, !.status = st].cert = pass.cert
                /\ [pass EXCEPT !.at = at, !.status = st].status = st
BY DEF Types, Passes

\* Changes of an object that leave it as ready as it was.
LEMMA Harmless ==
  ASSUME Types, FeedOrder, Steady, NEW c \in Certs, NEW o \in Objects,
         o.ready = Object(c).ready, o.arn = Object(c).arn, Dead(Object(c)) => Dead(o)
  PROVE  Legal(c, o)
<1>1. /\ Len(certs) \in Nat \ {0} /\ Object(c) = certs[Len(certs)][c]
      /\ Object(c) \in Objects /\ (Live(c) <=> ~Dead(Object(c)))
  BY FeedFacts
<1>2. Len(certs) \in 1..Len(certs)
  BY <1>1
<1>3. Object(c).ready => Object(c).arn /\ (Live(c) => acm[c] = "issued")
  BY <1>1, <1>2 DEF FeedOrder
<1>4. ASSUME ~Dead(o), ~o.ready, c \notin missed'
      PROVE  ~EverReady(c)
  <2>1. Live(c) /\ c \notin missed
    BY <1>1, <1>4 DEF Steady
  <2>2. ASSUME NEW j \in 1..Len(certs), certs[j][c].ready PROVE FALSE
    <3>1. \A k \in j..Len(certs) : certs[k][c].ready
      BY <2>1, <2>2 DEF FeedOrder
    <3>2. QED
      BY <1>1, <1>4, <3>1
  <2>3. QED
    BY <2>2 DEF EverReady
<1>5. QED
  BY <1>1, <1>3, <1>4 DEF Legal, Steady

LEMMA StepKeeps ==
  ASSUME Types, FeedOrder, PassKnows, [Next]_vars
  PROVE  Steady /\ Keeps
<1> USE DEF aws, control, history, To
<1>f. \A c \in Certs : Object(c) \in Objects /\ (Live(c) <=> ~Dead(Object(c)))
  BY FeedFacts
<1>s. acm' = acm /\ missed \subseteq missed' => Steady
  BY DEF Steady
<1>g. Steady /\ certs' \in {certs, Refreshed(certs)} => Keeps
  BY GoingOn, GoesOnKeeps
<1>h. Steady /\ Len(certs) > 1 /\ certs' = Tail(certs) => Keeps
  BY GoingOn, GoesOnKeeps
<1>w. Steady /\ Writes => Keeps
  BY WritesKeeps
<1>1. CASE \E c \in Certs : DeleteObject(c)
  <2>1. PICK c \in Certs : DeleteObject(c)
    BY <1>1
  <2>2. Steady /\ Live(c)
    BY <2>1, <1>s DEF DeleteObject
  <2>3. /\ [Object(c) EXCEPT !.deleting = TRUE] \in Objects
        /\ [Object(c) EXCEPT !.exists = FALSE] \in Objects
        /\ [Object(c) EXCEPT !.deleting = TRUE].ready = Object(c).ready
        /\ [Object(c) EXCEPT !.deleting = TRUE].arn = Object(c).arn
        /\ [Object(c) EXCEPT !.exists = FALSE].ready = Object(c).ready
        /\ [Object(c) EXCEPT !.exists = FALSE].arn = Object(c).arn
        /\ Dead([Object(c) EXCEPT !.deleting = TRUE])
        /\ Dead([Object(c) EXCEPT !.exists = FALSE])
    BY <1>f DEF Objects, Dead
  <2>4. /\ Legal(c, [Object(c) EXCEPT !.deleting = TRUE])
        /\ Legal(c, [Object(c) EXCEPT !.exists = FALSE])
    BY <2>2, <2>3, Harmless
  <2>5. Writes
    BY <2>1, <2>3, <2>4 DEF DeleteObject, Writes
  <2>6. QED
    BY <2>2, <2>5, <1>w
<1>2. CASE \/ \E i \in Ingresses : HandOver(i) \/ Serve(i) \/ Connect(i)
           \/ BeginConnect \/ UNCHANGED vars
  BY <1>2, <1>s, <1>g DEF HandOver, Serve, Connect, BeginConnect, vars
<1>3. CASE \E c \in Certs : Progress(c)
  <2>1. PICK c \in Certs : Progress(c)
    BY <1>3
  <2>2. \A d \in Certs : acm[d] = "issued" => acm'[d] = "issued"
    BY <2>1 DEF Progress, Types
  <2>3. Steady /\ certs' = certs
    BY <2>1, <2>2 DEF Progress, Steady
  <2>4. QED
    BY <2>3, <1>g
<1>4. CASE Deliver
  BY <1>4, <1>s, <1>g, <1>h DEF Deliver
<1>5. CASE Restart \/ Panic
  BY <1>5, <1>s, <1>g DEF Restart, Panic, Restarts
<1>6. CASE \E c \in Certs : BeginPass(c)
  <2>1. PICK c \in Certs : BeginPass(c)
    BY <1>6
  <2>2. Steady
    BY <2>1, <1>s DEF BeginPass
  <2>3. \E o \in Objects : /\ Write(c, o) /\ o.ready = Object(c).ready
                           /\ o.arn = Object(c).arn /\ (Dead(Object(c)) => Dead(o))
    <3> DEFINE o == Cached(certs)[c]
    <3>1. CASE o.held
      <4>1. Write(c, Object(c))
        BY <2>1, <3>1 DEF BeginPass
      <4>2. QED
        BY <4>1, <1>f
    <3>2. CASE ~o.held
      <4>1. o = Object(c) /\ Write(c, [o EXCEPT !.held = TRUE])
        BY <2>1, <3>2 DEF BeginPass
      <4>2. /\ [o EXCEPT !.held = TRUE] \in Objects
            /\ [o EXCEPT !.held = TRUE].ready = o.ready
            /\ [o EXCEPT !.held = TRUE].arn = o.arn
            /\ Dead(o) => Dead([o EXCEPT !.held = TRUE])
        BY <4>1, <1>f DEF Objects, Dead
      <4>3. QED
        BY <4>1, <4>2
    <3>3. QED
      BY <3>1, <3>2
  <2>4. Writes
    BY <2>2, <2>3, Harmless DEF Writes
  <2>5. QED
    BY <2>2, <2>4, <1>w
<1>7. CASE Ensure
  <2>0. pass # Idle
    BY <1>7 DEF Ensure, Idle
  <2>1. pass # Idle /\ pass.cert \in Certs
    BY <2>0, PassFacts
  <2>2. acm' \in {acm, [acm EXCEPT ![pass.cert] = "new"]}
    BY <1>7 DEF Ensure
  <2>3. acm' # acm => acm[pass.cert] = "none"
    BY <1>7 DEF Ensure
  <2>4. \A d \in Certs : acm[d] = "issued" => acm'[d] = "issued"
    BY <2>1, <2>2, <2>3 DEF Types
  <2>5. Steady /\ certs' = certs
    BY <1>7, <2>4 DEF Ensure, Steady
  <2>6. QED
    BY <2>5, <1>g
<1>8. CASE Validate \/ Get \/ Unrecord
  BY <1>8, <1>s, <1>g DEF Validate, Get, Unrecord
<1>9. CASE WriteStatus
  <2>0. pass # Idle /\ pass.at = "status"
    BY <1>9 DEF WriteStatus, Idle
  <2>1. pass # Idle /\ pass.cert \in Certs /\ pass.at = "status"
    BY <2>0, PassFacts
  <2>2. Steady
    BY <1>9, <1>s DEF WriteStatus
  <2> DEFINE c == pass.cert
             o == Status(Object(c), pass.status)
  <2>3. certs' = certs \/ Write(c, o)
    BY <1>9 DEF WriteStatus
  <2>4. /\ o \in Objects /\ (Dead(o) <=> Dead(Object(c)))
        /\ o.ready <=> pass.status = "issued"
        /\ o.arn <=> pass.status # "none"
    BY <2>1, <1>f DEF Status, Objects, Dead
  <2>5. Live(c) => IF pass.status = "issued" THEN acm[c] = "issued"
                   ELSE c \in missed \/ ~EverReady(c)
    BY <2>1 DEF PassKnows
  <2>6. Legal(c, o)
    BY <2>1, <2>2, <2>4, <2>5, <1>f DEF Legal, Steady
  <2>7. QED
    BY <2>1, <2>2, <2>3, <2>4, <2>6, <1>g, <1>w DEF Writes
<1>10. CASE DeleteCertificate
  <2>0. pass # Idle /\ pass.at = "delete"
    BY <1>10 DEF DeleteCertificate, Idle
  <2>1. pass # Idle /\ pass.cert \in Certs /\ ~Live(pass.cert)
    BY <2>0, PassFacts DEF PassKnows, Ending
  <2>2. acm' \in {acm, [acm EXCEPT ![pass.cert] = "none"]}
    BY <1>10 DEF DeleteCertificate
  <2>3. Steady /\ certs' = certs
    BY <1>10, <2>1, <2>2 DEF DeleteCertificate, Steady, Types
  <2>4. QED
    BY <2>3, <1>g
<1>11. CASE RemoveFinalizer
  <2>0. pass # Idle
    BY <1>11 DEF RemoveFinalizer, Idle
  <2>1. pass # Idle /\ pass.cert \in Certs
    BY <2>0, PassFacts
  <2>2. Steady
    BY <1>11, <1>s DEF RemoveFinalizer
  <2> DEFINE o == [Object(pass.cert) EXCEPT !.exists = FALSE]
  <2>3. certs' = certs \/ Write(pass.cert, o)
    BY <1>11 DEF RemoveFinalizer
  <2>4. /\ o \in Objects /\ Dead(o) /\ o.ready = Object(pass.cert).ready
        /\ o.arn = Object(pass.cert).arn
    BY <2>1, <1>f DEF Objects, Dead
  <2>5. Legal(pass.cert, o)
    BY <2>1, <2>2, <2>4, Harmless
  <2>6. QED
    BY <2>1, <2>2, <2>3, <2>4, <2>5, <1>g, <1>w DEF Writes
<1>12. QED
  BY <1>1, <1>2, <1>3, <1>4, <1>5, <1>6, <1>7, <1>8, <1>9, <1>10, <1>11
     DEF Next, Reconciling, Connecting

-----------------------------------------------------------------------------
(* Every step keeps what a pass knows. *)

\* An object that is written without becoming ready is not ready anywhere if
\* it was not.
LEMMA NotReady ==
  ASSUME Types, NEW c \in Certs
  PROVE  /\ GoesOn => (EverReady(c)' => EverReady(c))
         /\ \A d \in Certs, o \in Objects :
                Write(d, o) /\ o.ready = Object(d).ready => (EverReady(c)' => EverReady(c))
<1>1. /\ certs \in Feeds([Certs -> Objects]) /\ Len(certs) \in Nat \ {0}
      /\ Stored(certs) \in [Certs -> Objects] /\ Stored(certs) = certs[Len(certs)]
  BY FeedFacts, FeedEnds DEF Types
<1>2. ASSUME GoesOn, EverReady(c)' PROVE EverReady(c)
  <2>1. PICK m \in 0..(Len(certs) - 1) :
            /\ Len(certs') = Len(certs) - m
            /\ \A j \in 1..Len(certs') : certs'[j] = certs[j + m]
    BY <1>2 DEF GoesOn
  <2>2. PICK j \in 1..Len(certs') : certs'[j][c].ready
    BY <1>2 DEF EverReady
  <2>3. j + m \in 1..Len(certs) /\ certs[j + m][c].ready
    BY <1>1, <2>1, <2>2
  <2>4. QED
    BY <2>3 DEF EverReady
<1>3. ASSUME NEW d \in Certs, NEW o \in Objects, Write(d, o),
             o.ready = Object(d).ready, EverReady(c)'
      PROVE  EverReady(c)
  <2> DEFINE s == [Stored(certs) EXCEPT ![d] = o]
  <2>1. s \in [Certs -> Objects] /\ (s[c].ready = certs[Len(certs)][c].ready)
    BY <1>1, <1>3 DEF Object
  <2>2. certs' = Publish(certs, s)
    BY <1>3 DEF Write
  <2> HIDE DEF s
  <2>3. /\ Len(certs') \in {Len(certs), Len(certs) + 1}
        /\ \A j \in 1..Len(certs) : certs'[j] = certs[j]
        /\ certs'[Len(certs')] = s
    BY <1>1, <2>1, <2>2, PublishFeed
  <2>4. PICK j \in 1..Len(certs') : certs'[j][c].ready
    BY <1>3 DEF EverReady
  <2>5. CASE j \in 1..Len(certs)
    BY <2>3, <2>4, <2>5 DEF EverReady
  <2>6. CASE j \notin 1..Len(certs)
    <3>1. j = Len(certs') /\ Len(certs) \in 1..Len(certs)
      BY <1>1, <2>3, <2>6
    <3>2. QED
      BY <2>1, <2>3, <2>4, <3>1 DEF EverReady
  <2>7. QED
    BY <2>5, <2>6
<1>4. QED
  BY <1>2, <1>3

LEMMA PassStep ==
  ASSUME Types, FeedOrder, PassKnows, [Next]_vars, Steady, Keeps
  PROVE  PassKnows'
<1> USE DEF aws, control, history, To
<1>c. pass # Idle => pass.cert \in Certs
  BY PassFacts
<1>i. pass' = Idle => PassKnows'
  BY DEF PassKnows, Idle, Ending
<1>p. pass' = pass /\ (pass # Idle => (EverReady(pass.cert)' => EverReady(pass.cert))) =>
          PassKnows'
  BY <1>c, <1>i, KeepsPass
<1>e. certs' = certs /\ pass' = pass => PassKnows'
  <2>1. certs' = certs /\ pass' = pass => EverReady(pass.cert)' = EverReady(pass.cert)
    BY DEF EverReady
  <2>2. QED
    BY <2>1, <1>p
<1>1. CASE \E c \in Certs : DeleteObject(c)
  <2>1. PICK c \in Certs : DeleteObject(c)
    BY <1>1
  <2>2. /\ Object(c) \in Objects
        /\ [Object(c) EXCEPT !.deleting = TRUE] \in Objects
        /\ [Object(c) EXCEPT !.exists = FALSE] \in Objects
        /\ [Object(c) EXCEPT !.deleting = TRUE].ready = Object(c).ready
        /\ [Object(c) EXCEPT !.exists = FALSE].ready = Object(c).ready
    BY FeedFacts DEF Objects
  <2>3. \E o \in Objects : Write(c, o) /\ o.ready = Object(c).ready
    BY <2>1, <2>2 DEF DeleteObject
  <2>4. pass' = pass
    BY <2>1 DEF DeleteObject
  <2>5. QED
    BY <2>3, <2>4, <1>c, <1>p, NotReady
<1>2. CASE \/ \E i \in Ingresses : HandOver(i) \/ Serve(i) \/ Connect(i)
           \/ \E c \in Certs : Progress(c)
           \/ BeginConnect \/ UNCHANGED vars
  BY <1>2, <1>e DEF HandOver, Serve, Connect, Progress, BeginConnect, vars
<1>3. CASE Deliver
  <2>1. GoesOn /\ pass' = pass
    BY <1>3, GoingOn DEF Deliver
  <2>2. QED
    BY <2>1, <1>c, <1>p, NotReady
<1>4. CASE Restart \/ Panic \/ WriteStatus \/ RemoveFinalizer
  BY <1>4, <1>i DEF Restart, Panic, Restarts, WriteStatus, RemoveFinalizer
<1>5. CASE \E c \in Certs : BeginPass(c)
  <2>1. PICK c \in Certs : BeginPass(c)
    BY <1>5
  <2>2. /\ pass'.at = IF Cached(certs)[c].deleting THEN "get" ELSE "ensure"
        /\ pass'.cert = c /\ pass'.status = "none"
    BY <2>1 DEF BeginPass
  <2>3. Cached(certs)[c].deleting => ~Live(c)
    <3>1. 1 \in 1..Len(certs) /\ Cached(certs) = certs[1]
      BY FeedFacts
    <3>2. QED
      BY <3>1 DEF FeedOrder, Dead
  <2>4. Cached(certs)[c].deleting => ~Live(c)'
    BY <2>3 DEF Keeps
  <2>5. QED
    BY <2>2, <2>4 DEF PassKnows, Ending
<1>6. CASE Ensure
  <2> DEFINE c == pass.cert
  <2>0. pass # Idle /\ certs' = certs /\ pass.at = "ensure"
    BY <1>6 DEF Ensure, Idle
  <2>1. c \in Certs /\ pass.status = "none" /\ acm \in [Certs -> States]
    BY <2>0, <1>c DEF PassKnows, Types
  <2>p. pass \in Passes
    BY <2>0, PassFacts
  <2>2. CASE pass'.at = "validate"
    <3>1. pass'.cert = c /\ pass'.status = acm'[c]
      BY <1>6, <2>p, <2>2 DEF Ensure, Passes
    <3>2. ASSUME Live(c), acm'[c] # "issued" PROVE ~EverReady(pass.cert)'
      <4>1. acm[c] # "issued"
        BY <2>1, <3>2 DEF Steady
      <4>2. ~EverReady(c)
        BY <2>1, <3>2, <4>1 DEF EverReady, FeedOrder
      <4>3. QED
        BY <2>0, <3>1, <4>2 DEF EverReady
    <3>3. Live(pass.cert)' => Live(c)
      BY <2>0, <3>1 DEF Live, Object
    <3>4. QED
      BY <2>2, <3>1, <3>2, <3>3 DEF PassKnows, Ending
  <2>3. CASE pass'.at # "validate"
    <3>1. pass'.at = "status" /\ pass'.cert = c /\ pass'.status = "none" /\ c \in missed'
      BY <1>6, <2>p, <2>1, <2>3 DEF Ensure, Passes
    <3>2. QED
      BY <3>1 DEF PassKnows, Ending
  <2>4. QED
    BY <2>2, <2>3
<1>7. CASE Validate
  <2>0. /\ pass # Idle /\ certs' = certs /\ acm' = acm /\ missed' = missed
        /\ pass.at = "validate"
    BY <1>7 DEF Validate, Idle
  <2>p. pass \in Passes
    BY <2>0, PassFacts
  <2>1. pass'.at = "status" /\ pass'.cert = pass.cert /\ pass'.status = pass.status
    BY <1>7, <2>p DEF Validate, Unvalidated, Passes
  <2>2. /\ EverReady(pass.cert)' = EverReady(pass.cert)
        /\ Live(pass.cert)' = Live(pass.cert)
    BY <2>0, <2>1 DEF EverReady, Live, Object
  <2>3. QED
    BY <2>0, <2>1, <2>2 DEF PassKnows, Ending
<1>8. CASE Get \/ Unrecord \/ DeleteCertificate
  <2>0. pass # Idle /\ certs' = certs /\ pass.at \in Ending
    BY <1>8 DEF Get, Unrecord, DeleteCertificate, Idle, Ending
  <2>1. pass' = Idle \/ (pass'.at \in Ending /\ pass'.cert = pass.cert)
    <3>1. pass \in Passes
      BY <2>0, PassFacts
    <3>2. QED
      BY <1>8, <3>1 DEF Get, Unrecord, DeleteCertificate, Ending, Passes
  <2>2. CASE pass' # Idle
    <3>1. Live(pass.cert)' = Live(pass.cert)
      BY <2>0, <2>1, <2>2 DEF Live, Object
    <3>2. QED
      BY <2>0, <2>1, <2>2, <3>1 DEF PassKnows, Ending
  <2>3. QED
    BY <2>2, <1>i
<1>9. QED
  BY <1>1, <1>2, <1>3, <1>4, <1>5, <1>6, <1>7, <1>8 DEF Next, Reconciling, Connecting

-----------------------------------------------------------------------------
(* Every step keeps what is listed good. *)

\* What is listed after a step was listed before, or is wanted by the pass of
\* the connector.
Sources ==
    \A j \in 1..Len(ingresses') : \A i \in Ingresses :
        \A c \in ingresses'[j][i].lists :
            \/ \E k \in 1..Len(ingresses) : c \in ingresses[k][i].lists
            \/ connector # Idle /\ c \in connector.wanted

LEMMA IngressFacts ==
  ASSUME Types
  PROVE  /\ ingresses \in Feeds([Ingresses -> Lists]) /\ Len(ingresses) \in Nat \ {0}
         /\ Cached(ingresses) = ingresses[1] /\ Stored(ingresses) = ingresses[Len(ingresses)]
         /\ \A j \in 1..Len(ingresses) : ingresses[j] \in [Ingresses -> Lists]
         /\ \A j \in 1..Len(ingresses) : \A i \in Ingresses :
                ingresses[j][i].lists \subseteq Certs
         /\ \A i \in Ingresses : Ingress(i) \in Lists /\ Ingress(i) = Stored(ingresses)[i]
         /\ connector # Idle => connector \in Connects
<1>1. ingresses \in Feeds([Ingresses -> Lists])
  BY DEF Types
<1>2. /\ Len(ingresses) \in Nat \ {0}
      /\ Cached(ingresses) = ingresses[1] /\ Stored(ingresses) = ingresses[Len(ingresses)]
  BY <1>1, FeedEnds
<1>3. \A j \in 1..Len(ingresses) : ingresses[j] \in [Ingresses -> Lists]
  BY <1>1 DEF Feeds
<1>4. QED
  BY <1>1, <1>2, <1>3 DEF Ingress, Lists, Types

\* A write of one ingress that lists what it did, or what is wanted.
LEMMA IngressWrite ==
  ASSUME Types, NEW i \in Ingresses, NEW x \in Lists,
         ingresses' = Publish(ingresses, [Stored(ingresses) EXCEPT ![i] = x]),
         x.lists = Ingress(i).lists \/ (connector # Idle /\ x.lists = connector.wanted)
  PROVE  Sources /\ ingresses' \in Feeds([Ingresses -> Lists])
<1> DEFINE s == [Stored(ingresses) EXCEPT ![i] = x]
<1>1. s \in [Ingresses -> Lists] /\ s[i] = x /\ \A k \in Ingresses \ {i} : s[k] = Ingress(k)
  BY IngressFacts DEF Ingress
<1>2. ingresses' = Publish(ingresses, s)
  OBVIOUS
<1> HIDE DEF s
<1>3. /\ ingresses' \in Feeds([Ingresses -> Lists])
      /\ Len(ingresses') \in {Len(ingresses), Len(ingresses) + 1}
      /\ \A j \in 1..Len(ingresses) : ingresses'[j] = ingresses[j]
      /\ ingresses'[Len(ingresses')] = s
  BY <1>1, <1>2, IngressFacts, PublishFeed
<1>4. ASSUME NEW j \in 1..Len(ingresses'), NEW k \in Ingresses,
             NEW c \in ingresses'[j][k].lists
      PROVE  \/ \E l \in 1..Len(ingresses) : c \in ingresses[l][k].lists
             \/ connector # Idle /\ c \in connector.wanted
  <2>1. CASE j \in 1..Len(ingresses)
    BY <1>3, <1>4, <2>1
  <2>2. CASE j \notin 1..Len(ingresses)
    <3>1. /\ ingresses'[j] = s /\ Len(ingresses) \in 1..Len(ingresses)
          /\ Ingress(k) = ingresses[Len(ingresses)][k]
      BY <1>3, <2>2, IngressFacts
    <3>2. c \in Ingress(k).lists \/ (connector # Idle /\ c \in connector.wanted)
      BY <1>1, <1>4, <3>1
    <3>3. QED
      BY <3>1, <3>2
  <2>3. QED
    BY <2>1, <2>2
<1>5. QED
  BY <1>3, <1>4 DEF Sources

\* Feeds that deliver or are refreshed list nothing new.
LEMMA IngressGoesOn ==
  ASSUME Types,
         \/ ingresses' = ingresses \/ ingresses' = Refreshed(ingresses)
         \/ Len(ingresses) > 1 /\ ingresses' = Tail(ingresses)
  PROVE  Sources /\ ingresses' \in Feeds([Ingresses -> Lists])
<1>1. /\ ingresses' \in Feeds([Ingresses -> Lists])
      /\ \A j \in 1..Len(ingresses') :
            \E k \in 1..Len(ingresses) : ingresses'[j] = ingresses[k]
  <2>1. CASE ingresses' = ingresses
    BY <2>1, IngressFacts
  <2>2. CASE ingresses' = Refreshed(ingresses)
    BY <2>2, IngressFacts, RefreshFeed
  <2>3. CASE Len(ingresses) > 1 /\ ingresses' = Tail(ingresses)
    <3>1. /\ ingresses' \in Feeds([Ingresses -> Lists])
          /\ Len(ingresses') = Len(ingresses) - 1
          /\ \A j \in 1..(Len(ingresses) - 1) : ingresses'[j] = ingresses[j + 1]
      BY <2>3, IngressFacts, DeliverFeed
    <3>2. \A j \in 1..Len(ingresses') : j + 1 \in 1..Len(ingresses)
      BY <3>1, IngressFacts
    <3>3. QED
      BY <3>1, <3>2
  <2>4. QED
    BY <2>1, <2>2, <2>3
<1>2. QED
  BY <1>1 DEF Sources

\* What is listed stays good when it has good sources.
LEMMA SourcesGood ==
  ASSUME Types, ListsGood, Keeps, Sources
  PROVE  \A j \in 1..Len(ingresses') : \A i \in Ingresses :
             \A c \in ingresses'[j][i].lists : Good(c)'
<1>1. connector # Idle => connector.wanted \subseteq Certs
  BY IngressFacts DEF Connects
<1>2. QED
  BY <1>1, IngressFacts DEF Sources, ListsGood, Keeps

LEMMA ListsStep ==
  ASSUME Types, FeedOrder, ListsGood, [Next]_vars, Steady, Keeps
  PROVE  ListsGood' /\ ingresses' \in Feeds([Ingresses -> Lists])
<1> USE DEF aws, control, history
<1> DEFINE Listed == \A j \in 1..Len(ingresses') : \A i \in Ingresses :
                         \A c \in ingresses'[j][i].lists : Good(c)'
           Pass == connector' # Idle =>
              /\ \A c \in connector'.wanted : Good(c)'
              /\ \A i \in Ingresses : \A c \in connector'.view[i].lists \ connector'.wanted :
                    ~Live(c)' \/ c \in missed'
<1>q. Listed /\ Pass => ListsGood'
  BY DEF ListsGood
<1>s. Sources => Listed
  BY SourcesGood
<1>p. connector' = Idle \/ connector' = connector \/
      (connector # Idle /\ connector'.wanted = connector.wanted /\
       connector'.view = connector.view) => Pass
  <2> SUFFICES ASSUME connector' # Idle, connector # Idle,
                      connector'.wanted = connector.wanted, connector'.view = connector.view
               PROVE  Pass
    BY Zenon
  <2>1. /\ connector.wanted \subseteq Certs
        /\ \A i \in Ingresses : connector.view[i].lists \subseteq Certs
    BY IngressFacts DEF Connects, Lists
  <2>2. QED
    BY <2>1 DEF ListsGood, Keeps, Steady
<1> HIDE DEF Listed, Pass
<1>1. CASE \E i \in Ingresses : HandOver(i)
  <2>1. PICK i \in Ingresses : HandOver(i)
    BY <1>1
  <2> DEFINE x == [Ingress(i) EXCEPT !.controlled = ~@]
  <2>2. x \in Lists /\ x.lists = Ingress(i).lists
    BY IngressFacts DEF Lists
  <2>3. ingresses' = Publish(ingresses, [Stored(ingresses) EXCEPT ![i] = x])
    BY <2>1, IngressFacts DEF HandOver, Ingress, Lists
  <2>4. connector' = connector
    BY <2>1 DEF HandOver
  <2>5. QED
    BY <2>2, <2>3, <2>4, <1>q, <1>s, <1>p, IngressWrite
<1>2. CASE \E i \in Ingresses : Connect(i)
  <2>1. PICK i \in Ingresses : Connect(i)
    BY <1>2
  <2>2. connector # Idle /\ connector \in Connects
    <3>1. connector # Idle
      BY <2>1 DEF Connect, Idle
    <3>2. QED
      BY <3>1, IngressFacts
  <2> DEFINE x == [Ingress(i) EXCEPT !.lists = connector.wanted]
  <2>3. x \in Lists /\ x.lists = connector.wanted
    BY <2>2, IngressFacts DEF Lists, Connects
  <2>4. \/ ingresses' = Publish(ingresses, [Stored(ingresses) EXCEPT ![i] = x])
        \/ ingresses' = ingresses
    BY <2>1 DEF Connect
  <2>5. Sources /\ ingresses' \in Feeds([Ingresses -> Lists])
    BY <2>2, <2>3, <2>4, IngressWrite, IngressGoesOn
  <2>6. \/ connector' = Idle
        \/ connector'.wanted = connector.wanted /\ connector'.view = connector.view
    BY <2>1, <2>2 DEF Connect, Connects
  <2>7. QED
    BY <2>2, <2>5, <2>6, <1>q, <1>s, <1>p
<1>3. CASE BeginConnect
  <2>1. /\ connector' # Idle /\ connector'.view = Cached(ingresses)
        /\ connector'.wanted =
               {c \in Selected(Certs, Selector.certs) : Connectable(Cached(certs)[c])}
        /\ ingresses' = ingresses
    BY <1>3 DEF BeginConnect, Idle
  <2>2. /\ Selected(Certs, Selector.certs) \subseteq Certs
        /\ 1 \in 1..Len(certs) /\ Cached(certs) = certs[1]
        /\ Cached(ingresses) = ingresses[1] /\ 1 \in 1..Len(ingresses)
    BY FeedFacts, IngressFacts DEF Selected
  <2>3. ASSUME NEW c \in connector'.wanted PROVE Good(c)
    <3>1. /\ c \in Certs /\ c \in Selected(Certs, Selector.certs)
          /\ certs[1][c].ready
      BY <2>1, <2>2, <2>3 DEF Connectable
    <3>2. QED
      BY <2>2, <3>1 DEF Good, FeedOrder
  <2>4. ASSUME NEW i \in Ingresses, NEW c \in connector'.view[i].lists \ connector'.wanted
        PROVE  ~Live(c) \/ c \in missed
    <3>1. c \in Certs /\ Good(c)
      BY <2>1, <2>2, <2>4, IngressFacts DEF ListsGood
    <3>2. ASSUME Live(c), c \notin missed PROVE Connectable(Cached(certs)[c])
      <4>1. certs[1][c].ready
        BY <2>2, <3>1, <3>2 DEF Good
      <4>2. certs[1][c].arn /\ ~Dead(certs[1][c])
        BY <2>2, <3>1, <3>2, <4>1 DEF FeedOrder
      <4>3. QED
        BY <2>2, <4>1, <4>2 DEF Connectable, Dead
    <3>3. QED
      BY <2>1, <2>4, <3>1, <3>2 DEF Good
  <2>5. \A c \in connector'.wanted : c \in Certs
    BY <2>1, <2>2
  <2>6. \A i \in Ingresses : \A c \in connector'.view[i].lists : c \in Certs
    BY <2>1, <2>2, IngressFacts
  <2>7. Pass
    BY <2>3, <2>4, <2>5, <2>6 DEF Pass, Keeps, Steady
  <2>8. QED
    BY <2>1, <2>7, <1>q, <1>s, IngressGoesOn
<1>4. CASE Deliver
  BY <1>4, <1>q, <1>s, <1>p, IngressGoesOn DEF Deliver
<1>5. CASE Restart \/ Panic
  BY <1>5, <1>q, <1>s, <1>p, IngressGoesOn DEF Restart, Panic, Restarts
<1>6. CASE \/ \E c \in Certs : DeleteObject(c) \/ Progress(c) \/ BeginPass(c)
           \/ \E i \in Ingresses : Serve(i)
           \/ Ensure \/ Validate \/ WriteStatus \/ Get \/ Unrecord
           \/ DeleteCertificate \/ RemoveFinalizer \/ UNCHANGED vars
  <2>1. ingresses' = ingresses /\ connector' = connector
    BY <1>6 DEF DeleteObject, Progress, BeginPass, Serve, Ensure, Validate, WriteStatus,
       Get, Unrecord, DeleteCertificate, RemoveFinalizer, vars
  <2>2. QED
    BY <2>1, <1>q, <1>s, <1>p, IngressGoesOn
<1>7. QED
  BY <1>1, <1>2, <1>3, <1>4, <1>5, <1>6 DEF Next, Reconciling, Connecting

-----------------------------------------------------------------------------
(* The types, and the invariant. *)

\* The feeds have their types by the lemmas before.
LEMMA TypesStep ==
  ASSUME Types, [Next]_vars, certs' \in Feeds([Certs -> Objects]),
         ingresses' \in Feeds([Ingresses -> Lists])
  PROVE  Types'
<1> USE DEF aws, control, history, To
<1>1. acm' \in [Certs -> States]
  <2> DEFINE Changed == \E c \in Certs, st \in States : acm' = [acm EXCEPT ![c] = st]
  <2>0. "new" \in States /\ "pending" \in States /\ "issued" \in States /\ "none" \in States
    BY DEF States
  <2>1. acm' = acm \/ Changed
    <3>1. CASE \E c \in Certs : Progress(c)
      BY <3>1, <2>0 DEF Progress
    <3>2. CASE Ensure
      <4>1. pass # Idle
        BY <3>2 DEF Ensure, Idle
      <4>2. pass.cert \in Certs
        BY <4>1, PassFacts
      <4>3. acm' = acm \/ acm' = [acm EXCEPT ![pass.cert] = "new"]
        BY <3>2 DEF Ensure
      <4>4. QED
        BY <4>2, <4>3, <2>0
    <3>3. CASE DeleteCertificate
      <4>1. pass # Idle
        BY <3>3 DEF DeleteCertificate, Idle
      <4>2. pass.cert \in Certs
        BY <4>1, PassFacts
      <4>3. acm' = acm \/ acm' = [acm EXCEPT ![pass.cert] = "none"]
        BY <3>3 DEF DeleteCertificate
      <4>4. QED
        BY <4>2, <4>3, <2>0
    <3>4. CASE \/ \E c \in Certs : DeleteObject(c) \/ BeginPass(c)
               \/ \E i \in Ingresses : HandOver(i) \/ Serve(i) \/ Connect(i)
               \/ Validate \/ WriteStatus \/ Get \/ Panic \/ Unrecord \/ RemoveFinalizer
               \/ BeginConnect \/ Deliver \/ Restart \/ UNCHANGED vars
      BY <3>4 DEF DeleteObject, BeginPass, HandOver, Serve, Connect, Validate, WriteStatus,
         Get, Panic, Unrecord, RemoveFinalizer, BeginConnect, Deliver, Restart, vars
    <3>5. QED
      BY <3>1, <3>2, <3>3, <3>4 DEF Next, Reconciling, Connecting
  <2>2. acm \in [Certs -> States]
    BY DEF Types
  <2>3. QED
    BY <2>1, <2>2
<1>2. pass' \in Passes \cup {Idle}
  <2>1. CASE \E c \in Certs : BeginPass(c)
    <3>1. PICK c \in Certs : BeginPass(c)
      BY <2>1
    <3>2. [Cached(certs)[c] EXCEPT !.held = TRUE] \in Objects
      <4>1. PICK o : o = Cached(certs)[c]
        OBVIOUS
      <4>2. o \in Objects
        BY <4>1, FeedFacts
      <4>3. [o EXCEPT !.held = TRUE] \in Objects
        BY <4>2 DEF Objects
      <4>4. QED
        BY <4>1, <4>3
    <3>3. QED
      BY <3>1, <3>2 DEF BeginPass, Passes, Ensuring, Ending, States
  <2>2. CASE Ensure
    <3>1. pass # Idle
      BY <2>2 DEF Ensure, Idle
    <3>2. /\ "validate" \in Ensuring \cup Ending /\ "status" \in Ensuring \cup Ending
          /\ pass.cert \in Certs /\ acm \in [Certs -> States] /\ "new" \in States
      BY <3>1, PassFacts DEF Types, Ensuring, States
    <3>3. IF acm[pass.cert] = "none" THEN [acm EXCEPT ![pass.cert] = "new"][pass.cert] \in States
                                     ELSE acm[pass.cert] \in States
      BY <3>2
    <3>4. \/ \E st \in States : pass' = [pass EXCEPT !.at = "validate", !.status = st]
          \/ pass' = [pass EXCEPT !.at = "status"]
      BY <2>2, <3>3 DEF Ensure
    <3>5. CASE pass' = [pass EXCEPT !.at = "status"]
      <4>1. "none" \in States
        BY DEF States
      <4>2. [pass EXCEPT !.at = "status"] \in Passes
        BY <3>1, <3>2, <4>1, PassFacts
      <4>3. QED
        BY <3>5, <4>2
    <3>6. CASE \E st \in States : pass' = [pass EXCEPT !.at = "validate", !.status = st]
      <4>1. PICK st \in States : pass' = [pass EXCEPT !.at = "validate", !.status = st]
        BY <3>6
      <4>2. pass \in Passes
        BY <3>1, PassFacts
      <4>3. [pass EXCEPT !.at = "validate", !.status = st] \in Passes
        BY <3>2, <4>2 DEF Passes
      <4>4. QED
        BY <4>1, <4>3
    <3>7. QED
      BY <3>4, <3>5, <3>6
  <2>3. CASE Validate
    <3>1. pass # Idle
      BY <2>3 DEF Validate, Idle
    <3>2. "status" \in Ensuring \cup Ending /\ pass.status \in States
      BY <3>1, PassFacts DEF Ensuring
    <3>3. \/ pass' = [pass EXCEPT !.at = "status", !.status = pass.status]
          \/ pass' = [pass EXCEPT !.at = "status"]
      BY <2>3 DEF Validate, Unvalidated
    <3>4. QED
      BY <3>1, <3>2, <3>3, PassFacts
  <2>4. CASE Get \/ Unrecord \/ DeleteCertificate
    <3>1. pass # Idle
      BY <2>4 DEF Get, Unrecord, DeleteCertificate, Idle
    <3>2. /\ "unrecord" \in Ensuring \cup Ending /\ "done" \in Ensuring \cup Ending
          /\ "delete" \in Ensuring \cup Ending
      BY DEF Ending
    <3>3. pass' = Idle \/ \E at \in Ensuring \cup Ending : pass' = [pass EXCEPT !.at = at]
      BY <2>4, <3>2 DEF Get, Unrecord, DeleteCertificate
    <3>4. \A at \in Ensuring \cup Ending : [pass EXCEPT !.at = at] \in Passes
      BY <3>1, PassFacts DEF States
    <3>5. QED
      BY <3>3, <3>4
  <2>5. CASE \/ \E c \in Certs : DeleteObject(c) \/ Progress(c)
             \/ \E i \in Ingresses : HandOver(i) \/ Serve(i) \/ Connect(i)
             \/ WriteStatus \/ Panic \/ RemoveFinalizer
             \/ BeginConnect \/ Deliver \/ Restart \/ UNCHANGED vars
    BY <2>5 DEF DeleteObject, Progress, HandOver, Serve, Connect, WriteStatus,
       Panic, RemoveFinalizer, BeginConnect, Deliver, Restart, Restarts, Types, vars
  <2>6. QED
    BY <2>1, <2>2, <2>3, <2>4, <2>5 DEF Next, Reconciling, Connecting
<1>3. connector' \in Connects \cup {Idle}
  <2>1. CASE BeginConnect
    <3>1. /\ Cached(ingresses) \in [Ingresses -> Lists]
          /\ Selected(Certs, Selector.certs) \subseteq Certs
          /\ Selected(Ingresses, Selector.ingresses) \subseteq Ingresses
      BY IngressFacts DEF Selected
    <3>2. QED
      BY <2>1, <3>1 DEF BeginConnect, Connects
  <2>2. CASE \E i \in Ingresses : Connect(i)
    <3>1. PICK i \in Ingresses : Connect(i)
      BY <2>2
    <3>2. connector # Idle
      BY <3>1 DEF Connect, Idle
    <3>3. connector \in Connects
      BY <3>2, IngressFacts
    <3>4. QED
      BY <3>1, <3>3 DEF Connect, Connects
  <2>3. CASE \/ \E c \in Certs : DeleteObject(c) \/ Progress(c) \/ BeginPass(c)
             \/ \E i \in Ingresses : HandOver(i) \/ Serve(i)
             \/ Reconciling \/ Deliver \/ Restart \/ UNCHANGED vars
    BY <2>3 DEF DeleteObject, Progress, BeginPass, HandOver, Serve, Reconciling, Ensure,
       Validate, WriteStatus, Get, Panic, Unrecord, DeleteCertificate, RemoveFinalizer,
       Deliver, Restart, Restarts, Types, vars
  <2>4. QED
    BY <2>1, <2>2, <2>3 DEF Next, Connecting
<1>4. QED
  BY <1>1, <1>2, <1>3 DEF Types

LEMMA InitIInv == Init => IInv
<1> SUFFICES ASSUME Init PROVE IInv
  OBVIOUS
<1> DEFINE o == [exists |-> TRUE, held |-> FALSE, deleting |-> FALSE, arn |-> FALSE,
                 ready |-> FALSE]
           x == [controlled |-> TRUE, lists |-> {}]
<1>1. /\ certs = <<[c \in Certs |-> o]>> /\ o \in Objects
      /\ ingresses = <<[i \in Ingresses |-> x]>> /\ x \in Lists
  BY DEF Init, Objects, Lists
<1>2. /\ certs \in Feeds([Certs -> Objects]) /\ Len(certs) = 1
      /\ ingresses \in Feeds([Ingresses -> Lists]) /\ Len(ingresses) = 1
      /\ \A c \in Certs : certs[1][c] = o
      /\ \A i \in Ingresses : ingresses[1][i].lists = {}
  BY <1>1 DEF Feeds
<1>3. Types
  BY <1>2 DEF Init, Types, States
<1>4. FeedOrder
  BY <1>2 DEF FeedOrder, Dead
<1>5. PassKnows
  BY DEF Init, PassKnows, Idle, Ending
<1>6. ListsGood
  BY <1>2 DEF Init, ListsGood
<1>7. QED
  BY <1>3, <1>4, <1>5, <1>6 DEF IInv

\* The invariant of every behaviour.
LEMMA Invariant == Spec => []IInv
<1>1. IInv /\ [Next]_vars => IInv'
  <2> SUFFICES ASSUME IInv, [Next]_vars PROVE IInv'
    OBVIOUS
  <2>1. Steady /\ Keeps
    BY StepKeeps DEF IInv
  <2>2. PassKnows'
    BY <2>1, PassStep DEF IInv
  <2>3. ListsGood' /\ ingresses' \in Feeds([Ingresses -> Lists])
    BY <2>1, ListsStep DEF IInv
  <2>4. Types'
    BY <2>1, <2>3, TypesStep DEF IInv, Keeps
  <2>5. QED
    BY <2>1, <2>2, <2>3, <2>4 DEF IInv, Keeps
<1>2. QED
  BY <1>1, InitIInv, PTL DEF Spec

-----------------------------------------------------------------------------
(* The theorems. *)

\* Whatever the caches show, an ingress lists only certificates that are
\* issued, as long as their objects live.
THEOREM ListedCertificatesAreIssued == Spec => []ListedIsIssued
<1>1. IInv => ListedIsIssued
  <2> SUFFICES ASSUME IInv, NEW i \in Ingresses, NEW c \in Certs,
                      c \in Ingress(i).lists, Live(c)
               PROVE  acm[c] = "issued"
    BY DEF ListedIsIssued
  <2>1. Types /\ ListsGood
    BY DEF IInv
  <2>2. Len(ingresses) \in 1..Len(ingresses) /\ Ingress(i) = ingresses[Len(ingresses)][i]
    BY <2>1, IngressFacts
  <2>3. Good(c)
    BY <2>1, <2>2 DEF ListsGood
  <2>4. QED
    BY <2>3 DEF Good
<1>2. QED
  BY <1>1, Invariant, PTL

\* An ingress does not lose the certificate of a live object, unless a pass
\* has failed to look that certificate up.
THEOREM ListedCertificatesStay == Spec => StaysListed
<1>1. IInv /\ [Next]_vars =>
          [\A i \in Ingresses :
             \A c \in Ingress(i).lists \ Ingress(i)'.lists : ~Live(c) \/ c \in missed]_vars
  <2> SUFFICES ASSUME IInv, [Next]_vars, NEW i \in Ingresses,
                      NEW c \in Ingress(i).lists \ Ingress(i)'.lists
               PROVE  ~Live(c) \/ c \in missed
    OBVIOUS
  <2> USE DEF aws, control, history
  <2>1. Types /\ ListsGood
    BY DEF IInv
  <2>f. /\ ingresses \in Feeds([Ingresses -> Lists])
        /\ Stored(ingresses) \in [Ingresses -> Lists]
        /\ \A k \in Ingresses : Ingress(k) \in Lists /\ Ingress(k) = Stored(ingresses)[k]
    BY <2>1, IngressFacts, FeedEnds
  <2>2. Stored(ingresses') # Stored(ingresses)
    BY DEF Ingress
  <2>3. CASE \E k \in Ingresses : Connect(k)
    <3>1. PICK k \in Ingresses : Connect(k)
      BY <2>3
    <3>2. connector # Idle
      BY <3>1 DEF Connect, Idle
    <3>3. connector \in Connects
      BY <2>1, <3>2, IngressFacts
    <3> DEFINE x == [Ingress(k) EXCEPT !.lists = connector.wanted]
               s == [Stored(ingresses) EXCEPT ![k] = x]
    <3>4. /\ x \in Lists /\ x.lists = connector.wanted /\ s \in [Ingresses -> Lists]
          /\ s[k] = x /\ \A j \in Ingresses \ {k} : s[j] = Ingress(j)
      BY <3>3, <2>f DEF Lists, Connects
    <3>5. connector.view[k] = Ingress(k) /\ ingresses' = Publish(ingresses, s)
      BY <3>1, <2>2 DEF Connect
    <3> HIDE DEF s
    <3>6. Stored(ingresses') = s
      BY <2>f, <3>4, <3>5, PublishFeed
    <3>7. i = k /\ Ingress(i)'.lists = connector.wanted
      BY <2>f, <3>4, <3>6 DEF Ingress
    <3>8. c \in connector.view[k].lists \ connector.wanted
      BY <3>5, <3>7
    <3>9. QED
      BY <2>1, <3>2, <3>8 DEF ListsGood
  <2>4. CASE \E k \in Ingresses : HandOver(k)
    <3>1. PICK k \in Ingresses : HandOver(k)
      BY <2>4
    <3> DEFINE x == [Ingress(k) EXCEPT !.controlled = ~@]
               s == [Stored(ingresses) EXCEPT ![k] = x]
    <3>2. /\ x \in Lists /\ x.lists = Ingress(k).lists /\ s \in [Ingresses -> Lists]
          /\ s[k] = x /\ \A j \in Ingresses \ {k} : s[j] = Ingress(j)
      BY <2>f DEF Lists
    <3>3. ingresses' = Publish(ingresses, s)
      BY <3>1, <2>f DEF HandOver, Ingress, Lists
    <3> HIDE DEF s
    <3>4. Stored(ingresses') = s
      BY <2>f, <3>2, <3>3, PublishFeed
    <3>5. Ingress(i)'.lists = Ingress(i).lists
      BY <2>f, <3>2, <3>4 DEF Ingress
    <3>6. QED
      BY <3>5
  <2>5. CASE Deliver \/ Restart \/ Panic
    <3>1. \/ ingresses' \in {ingresses, Refreshed(ingresses)}
          \/ Len(ingresses) > 1 /\ ingresses' = Tail(ingresses)
      BY <2>5 DEF Deliver, Restart, Panic, Restarts
    <3>2. /\ Stored(Refreshed(ingresses)) = Stored(ingresses)
          /\ Len(ingresses) > 1 => Stored(Tail(ingresses)) = Stored(ingresses)
      BY <2>f, DeliverFeed, RefreshFeed
    <3>3. QED
      BY <2>2, <3>1, <3>2
  <2>6. CASE \/ \E d \in Certs : DeleteObject(d) \/ Progress(d) \/ BeginPass(d)
             \/ \E k \in Ingresses : Serve(k)
             \/ Ensure \/ Validate \/ WriteStatus \/ Get \/ Unrecord
             \/ DeleteCertificate \/ RemoveFinalizer \/ BeginConnect \/ UNCHANGED vars
    BY <2>2, <2>6 DEF DeleteObject, Progress, BeginPass, Serve, Ensure, Validate,
       WriteStatus, Get, Unrecord, DeleteCertificate, RemoveFinalizer, BeginConnect, vars
  <2>7. QED
    BY <2>3, <2>4, <2>5, <2>6 DEF Next, Reconciling, Connecting
<1>2. QED
  BY <1>1, Invariant, PTL DEF Spec, StaysListed
=============================================================================
