----------------------- MODULE ControlProductionProofs -----------------------
(***************************************************************************)
(* Proofs about ControlProduction for every number of launches, controls,  *)
(* commits and deletions.                                                  *)
(***************************************************************************)
EXTENDS ControlProduction, TLAPS

-----------------------------------------------------------------------------
\* A finished bundle.
Whole == [controls |-> Controls, tainted |-> FALSE, manifest |-> TRUE, receipt |-> TRUE]

\* The history has a first commit and names only commits it has; what a launch was
\* requested for, what a bundle says and what the verifier holds are among them.
History ==
  /\ HEAD \in 1..MaxCommits
  /\ \A l \in Launches : want[l] \in 1..HEAD
  /\ bundle # None => bundle.commit \in 1..HEAD
  /\ held.commit \in 1..HEAD

\* How much of the bundle each child has behind it, where it is.
Progress ==
  \A l \in Launches :
    /\ cpc[l] \in {"mkdir", "before", "after", "assemble", "sign", "publish"} =>
         commits[want[l]].base = "test_fixture"
    /\ cpc[l] \in {"before", "after"} =>
         /\ staging[l] \in Staging
         /\ ~staging[l].tainted /\ ~staging[l].manifest /\ ~staging[l].receipt
    /\ cpc[l] = "after" => staging[l].controls < Controls
    /\ cpc[l] = "assemble" => staging[l] = [Whole EXCEPT !.manifest = FALSE, !.receipt = FALSE]
    /\ cpc[l] = "sign" => staging[l] = [Whole EXCEPT !.receipt = FALSE]
    /\ cpc[l] = "publish" => staging[l] = Whole

\* What is published was finished by a launch that has begun, for its own commit.
Published ==
  bundle # None =>
    /\ bundle.files = Whole
    /\ commits[bundle.commit].base = "test_fixture"
    /\ bundle.commit = want[bundle.by] /\ cpc[bundle.by] # "off"

\* Until an operator deletes a bundle, a child that has published still finds its own.
Settled ==
  deletions = 0 =>
    \A l \in Launches : cpc[l] \in {"settle", "takeback"} => bundle # None /\ bundle.by = l

\* A launcher that is past its child's answer has it, and the child has ended.
Answered ==
  \A l \in Launches :
    lpc[l] \in {"identity", "receipt"} => cpc[l] = "done" /\ response[l] = "published"

\* What the verifier has read is of one bundle, and of commits that stay.
Verifying ==
  /\ vpc \in {"manifest", "evidence", "accepted"} => seen = {held.by}
  /\ vpc \in {"evidence", "accepted"} => held.contract.base = commits[held.commit].base

\* The inductive invariant.
ProductionInv ==
  TypeOK /\ History /\ Progress /\ Published /\ Settled /\ Answered /\ Verifying

LEMMA WholeTyped ==
  /\ Whole \in Staging /\ [Whole EXCEPT !.receipt = FALSE] \in Staging
  /\ [Whole EXCEPT !.manifest = FALSE, !.receipt = FALSE] \in Staging
<1>1. Controls \in 0..Controls
  BY ProductionAssumption
<1>2. QED
  BY <1>1 DEF Whole, Staging

\* The two files that complete a bundle, written one after the other.
LEMMA WholeByParts ==
  /\ [[Whole EXCEPT !.manifest = FALSE, !.receipt = FALSE] EXCEPT !.manifest = TRUE]
       = [Whole EXCEPT !.receipt = FALSE]
  /\ [[Whole EXCEPT !.receipt = FALSE] EXCEPT !.receipt = TRUE] = Whole
  /\ \A s \in Staging :
       s.controls = Controls /\ ~s.tainted /\ ~s.manifest /\ ~s.receipt
         => s = [Whole EXCEPT !.manifest = FALSE, !.receipt = FALSE]
<1>1. ASSUME NEW r \in Staging, NEW s \in Staging, r.controls = s.controls,
             r.tainted = s.tainted, r.manifest = s.manifest, r.receipt = s.receipt
      PROVE  r = s
  <2>1. ASSUME NEW t \in Staging
        PROVE  t = [controls |-> t.controls, tainted |-> t.tainted,
                    manifest |-> t.manifest, receipt |-> t.receipt]
    BY DEF Staging
  <2>2. QED
    BY <1>1, <2>1
<1>2. ASSUME NEW r \in Staging, NEW m \in BOOLEAN
      PROVE  /\ [r EXCEPT !.manifest = m] \in Staging /\ [r EXCEPT !.receipt = m] \in Staging
             /\ LET s == [r EXCEPT !.manifest = m]
                IN  /\ s.controls = r.controls /\ s.tainted = r.tainted
                    /\ s.manifest = m /\ s.receipt = r.receipt
             /\ LET s == [r EXCEPT !.receipt = m]
                IN  /\ s.controls = r.controls /\ s.tainted = r.tainted
                    /\ s.manifest = r.manifest /\ s.receipt = m
  BY DEF Staging
<1> DEFINE Signed == [Whole EXCEPT !.receipt = FALSE]
           Bare == [Whole EXCEPT !.manifest = FALSE, !.receipt = FALSE]
<1>3. Whole \in Staging /\ Signed \in Staging /\ Bare \in Staging
  BY WholeTyped
<1>4. /\ Whole.controls = Controls /\ ~Whole.tainted /\ Whole.manifest /\ Whole.receipt
      /\ Signed.controls = Controls /\ ~Signed.tainted /\ Signed.manifest /\ ~Signed.receipt
      /\ Bare.controls = Controls /\ ~Bare.tainted /\ ~Bare.manifest /\ ~Bare.receipt
  BY DEF Whole
<1>5. \A s \in Staging : s.tainted \in BOOLEAN /\ s.manifest \in BOOLEAN /\ s.receipt \in BOOLEAN
  BY DEF Staging
<1> HIDE DEF Signed, Bare
<1>6. [Bare EXCEPT !.manifest = TRUE] = Signed
  <2> DEFINE s == [Bare EXCEPT !.manifest = TRUE]
  <2>1. s \in Staging /\ s.controls = Bare.controls /\ s.tainted = Bare.tainted
        /\ s.manifest = TRUE /\ s.receipt = Bare.receipt
    BY <1>2, <1>3
  <2> HIDE DEF s
  <2>2. s.controls = Signed.controls /\ s.tainted = Signed.tainted
        /\ s.manifest = Signed.manifest /\ s.receipt = Signed.receipt
    BY <2>1, <1>3, <1>4, <1>5
  <2>3. s = Signed
    BY <1>1, <1>3, <2>1, <2>2
  <2>4. QED
    BY <2>3 DEF s
<1>7. [Signed EXCEPT !.receipt = TRUE] = Whole
  <2> DEFINE s == [Signed EXCEPT !.receipt = TRUE]
  <2>1. s \in Staging /\ s.controls = Signed.controls /\ s.tainted = Signed.tainted
        /\ s.manifest = Signed.manifest /\ s.receipt = TRUE
    BY <1>2, <1>3
  <2> HIDE DEF s
  <2>2. s.controls = Whole.controls /\ s.tainted = Whole.tainted
        /\ s.manifest = Whole.manifest /\ s.receipt = Whole.receipt
    BY <2>1, <1>3, <1>4, <1>5
  <2>3. s = Whole
    BY <1>1, <1>3, <2>1, <2>2
  <2>4. QED
    BY <2>3 DEF s
<1>8. \A s \in Staging :
        s.controls = Controls /\ ~s.tainted /\ ~s.manifest /\ ~s.receipt => s = Bare
  BY <1>1, <1>3, <1>4, <1>5
<1>9. QED
  BY <1>6, <1>7, <1>8 DEF Signed, Bare

\* What AfterControl stages.
LEMMA ControlTyped ==
  ASSUME NEW s \in Staging, NEW changed \in BOOLEAN, s.controls < Controls
  PROVE  [s EXCEPT !.controls = @ + 1, !.tainted = @ \/ changed] \in Staging
<1>1. s.controls + 1 \in 0..Controls
  BY ProductionAssumption DEF Staging
<1>2. (s.tainted \/ changed) \in BOOLEAN
  OBVIOUS
<1>3. ASSUME NEW c \in 0..Controls, NEW t \in BOOLEAN
      PROVE  [s EXCEPT !.controls = c, !.tainted = t] \in Staging
  BY <1>3 DEF Staging
<1>4. QED
  BY <1>1, <1>2, <1>3

LEMMA InitProduction == Init => ProductionInv
<1> SUFFICES ASSUME Init PROVE ProductionInv
  OBVIOUS
<1> USE ProductionAssumption
<1>1. [base |-> "test_fixture", suite |-> None] \in Contract
  BY DEF Contract
<1>2. HEAD = 1 /\ commits \in Seq(Contract) /\ commits[1] \in Contract
  BY <1>1 DEF Init, HEAD
<1>3. held \in [contract : Contract, by : Launches \cup {None}, commit : 1..MaxCommits]
      /\ held.commit = 1
  BY <1>1 DEF Init, NothingHeld
<1>4. TypeOK
  <2>1. want \in [Launches -> 1..MaxCommits] /\ deletions \in 0..MaxDeletions
    BY DEF Init
  <2>2. work \in Contract
    BY <1>2 DEF Init
  <2>3. QED
    BY <1>2, <1>3, <2>1, <2>2 DEF Init, TypeOK
<1>5. History
  BY <1>2, <1>3 DEF Init, History
<1>6. Progress /\ Published /\ Settled /\ Answered /\ Verifying
  BY DEF Init, Progress, Published, Settled, Answered, Verifying
<1>7. QED
  BY <1>4, <1>5, <1>6 DEF ProductionInv

\* What is staged has its type because Progress says what is there already.
LEMMA NextTypeOK == ProductionInv /\ [Next]_vars => TypeOK'
<1> SUFFICES ASSUME ProductionInv, [Next]_vars PROVE TypeOK'
  OBVIOUS
<1> USE ProductionAssumption DEF repo, launcher, child, verifier, Launcher, Child, Stage
<1>0. TypeOK /\ History /\ Progress
  BY DEF ProductionInv
<1>1. CASE Edit
  BY <1>0, <1>1 DEF Edit, TypeOK
<1>2. CASE Commit
  BY <1>0, <1>2 DEF Commit, TypeOK
<1>3. CASE Delete
  BY <1>0, <1>3 DEF Delete, TypeOK
<1>4. ASSUME NEW l \in Launches, Alter(l) PROVE TypeOK'
  BY <1>0, <1>4 DEF Alter, TypeOK
<1>5. ASSUME NEW l \in Launches, Launch(l) PROVE TypeOK'
  BY <1>0, <1>5 DEF Launch, TypeOK, History
<1>6. ASSUME NEW l \in Launches, Timeout(l) \/ LauncherDies(l) PROVE TypeOK'
  BY <1>0, <1>6 DEF Timeout, LauncherDies, TypeOK
<1>7. ASSUME NEW l \in Launches, ReadResponse(l) \/ CheckIdentity(l) \/ CheckReceipt(l)
      PROVE  TypeOK'
  BY <1>0, <1>7 DEF ReadResponse, CheckIdentity, CheckReceipt, TypeOK
<1>8. ASSUME NEW l \in Launches,
             \/ CheckAuthority(l) \/ BeforeControl(l) \/ Settle(l) \/ Fail(l)
             \/ SettleFails(l) \/ TakeBackFails(l)
      PROVE  TypeOK'
  BY <1>0, <1>8 DEF CheckAuthority, BeforeControl, Settle, Fail, SettleFails, TakeBackFails, TypeOK
<1>9. ASSUME NEW l \in Launches, NEW new \in Staging \cup {None}, Stage(l, new)
      PROVE  staging' \in [Launches -> Staging \cup {None}]
  BY <1>0, <1>9 DEF TypeOK
<1>10. ASSUME NEW l \in Launches, MakeStaging(l) PROVE TypeOK'
  <2>1. EmptyStaging \in Staging
    BY DEF EmptyStaging, Staging
  <2>2. staging' \in [Launches -> Staging \cup {None}]
    BY <1>9, <1>10, <2>1 DEF MakeStaging
  <2>3. QED
    BY <1>0, <1>10, <2>2 DEF MakeStaging, TypeOK
<1>11. ASSUME NEW l \in Launches, AfterControl(l) PROVE TypeOK'
  <2>1. staging[l] \in Staging /\ staging[l].controls < Controls /\ altered[l] \in BOOLEAN
    BY <1>0, <1>11 DEF AfterControl, Progress, TypeOK
  <2>2. [staging[l] EXCEPT !.controls = @ + 1, !.tainted = @ \/ altered[l]] \in Staging
    BY <2>1, ControlTyped
  <2>3. staging' \in [Launches -> Staging \cup {None}]
    BY <1>9, <1>11, <2>2 DEF AfterControl
  <2>4. QED
    BY <1>0, <1>11, <2>3 DEF AfterControl, TypeOK
<1>12. ASSUME NEW l \in Launches, Assemble(l) \/ Sign(l) PROVE TypeOK'
  <2>1. staging[l] \in Staging
    BY <1>0, <1>12, WholeTyped DEF Assemble, Sign, Progress
  <2>2. /\ [staging[l] EXCEPT !.manifest = TRUE] \in Staging
        /\ [staging[l] EXCEPT !.receipt = TRUE] \in Staging
    BY <2>1 DEF Staging
  <2>3. staging' \in [Launches -> Staging \cup {None}]
    BY <1>9, <1>12, <2>2 DEF Assemble, Sign
  <2>4. CASE Assemble(l)
    BY <1>0, <2>3, <2>4 DEF Assemble, TypeOK
  <2>5. CASE Sign(l)
    BY <1>0, <2>3, <2>5 DEF Sign, TypeOK
  <2>6. QED
    BY <1>12, <2>4, <2>5
<1>13. ASSUME NEW l \in Launches, Publish(l) PROVE TypeOK'
  <2>1. staging[l] \in Staging /\ want[l] \in 1..MaxCommits
    BY <1>0, <1>13, WholeTyped DEF Publish, Progress, TypeOK
  <2>2. NewBundle(l) \in Bundle
    BY <2>1 DEF NewBundle, Bundle
  <2>3. staging' \in [Launches -> Staging \cup {None}]
    BY <1>9, <1>13 DEF Publish
  <2>4. QED
    BY <1>0, <1>13, <2>2, <2>3 DEF Publish, TypeOK
<1>14. ASSUME NEW l \in Launches, TakeBack(l) PROVE TypeOK'
  <2>1. bundle # None => bundle.files \in Staging
    BY <1>0 DEF TypeOK, Bundle
  <2>2. staging' \in [Launches -> Staging \cup {None}]
    BY <1>9, <1>14, <2>1 DEF TakeBack
  <2>3. QED
    BY <1>0, <1>14, <2>2 DEF TakeBack, TypeOK
<1>15. ASSUME NEW l \in Launches, Clear(l) PROVE TypeOK'
  <2>1. staging' \in [Launches -> Staging \cup {None}]
    BY <1>9, <1>15 DEF Clear
  <2>2. QED
    BY <1>0, <1>15, <2>1 DEF Clear, TypeOK
<1>16. ASSUME NEW l \in Launches, Answer(l) PROVE TypeOK'
  BY <1>0, <1>16 DEF Answer, TypeOK
<1>17. CASE ReadReceipt
  <2>1. bundle \in Bundle /\ bundle.by \in Launches /\ bundle.commit \in 1..MaxCommits
    BY <1>0, <1>17 DEF ReadReceipt, TypeOK, Bundle
  <2>2. held' \in [contract : Contract, by : Launches \cup {None}, commit : 1..MaxCommits]
    BY <1>0, <1>17, <2>1 DEF ReadReceipt, TypeOK
  <2>3. QED
    BY <1>0, <1>17, <2>1, <2>2 DEF ReadReceipt, TypeOK
<1>18. CASE ReadManifest \/ ReadEvidence
  <2>1. bundle.by \in Launches
    BY <1>0, <1>18 DEF ReadManifest, ReadEvidence, BoundFile, TypeOK, Bundle
  <2>2. QED
    BY <1>0, <1>18, <2>1 DEF ReadManifest, ReadEvidence, TypeOK
<1>19. CASE Reverify
  <2>1. NothingHeld \in [contract : Contract, by : Launches \cup {None}, commit : 1..MaxCommits]
    BY DEF NothingHeld, Contract
  <2>2. QED
    BY <1>0, <1>19, <2>1 DEF Reverify, TypeOK
<1>20. CASE UNCHANGED vars
  BY <1>0, <1>20 DEF vars, TypeOK
<1>21. QED
  BY <1>1, <1>2, <1>3, <1>4, <1>5, <1>6, <1>7, <1>8, <1>10, <1>11, <1>12, <1>13, <1>14,
     <1>15, <1>16, <1>17, <1>18, <1>19, <1>20 DEF Next, LauncherStep, ChildStep

\* Commits are only ever added.
LEMMA HistoryGrows ==
  ASSUME ProductionInv, [Next]_vars
  PROVE  /\ HEAD <= HEAD' /\ HEAD' \in 1..MaxCommits
         /\ \A i \in 1..HEAD : commits'[i] = commits[i]
<1> USE DEF repo, launcher, child, verifier
<1>0. commits \in Seq(Contract) /\ work \in Contract /\ HEAD \in 1..MaxCommits
  BY DEF ProductionInv, TypeOK, History
<1>1. CASE UNCHANGED commits
  BY <1>0, <1>1 DEF HEAD
<1>2. CASE Commit
  BY <1>0, <1>2, ProductionAssumption DEF Commit, HEAD
<1>3. UNCHANGED commits \/ Commit
  BY DEF Next, Edit, Delete, Launch, LauncherStep, Timeout, ReadResponse, CheckIdentity,
     CheckReceipt, LauncherDies, ChildStep, CheckAuthority, MakeStaging, BeforeControl,
     AfterControl, Assemble, Sign, Publish, Settle, Answer, Fail, SettleFails, TakeBack,
     TakeBackFails, Clear, Alter, ReadReceipt, ReadManifest, ReadEvidence, Reverify, vars
<1>4. QED
  BY <1>1, <1>2, <1>3

LEMMA NextHistory == ProductionInv /\ [Next]_vars => History'
<1> SUFFICES ASSUME ProductionInv, [Next]_vars PROVE History'
  OBVIOUS
<1> USE DEF repo, launcher, child, verifier, Launcher, Child
<1>0. TypeOK /\ TypeOK' /\ History
  BY NextTypeOK DEF ProductionInv
<1>1. HEAD <= HEAD' /\ HEAD' \in 1..MaxCommits /\ HEAD \in 1..MaxCommits
  BY HistoryGrows, <1>0 DEF History
<1>2. \A i \in 1..HEAD : i \in 1..HEAD'
  BY <1>1
<1>3. ASSUME UNCHANGED <<want, bundle, held>> PROVE History'
  BY <1>0, <1>1, <1>2, <1>3 DEF History
<1>4. ASSUME NEW l \in Launches, Launch(l) PROVE History'
  <2>1. \A k \in Launches : want'[k] = IF k = l THEN HEAD ELSE want[k]
    BY <1>0, <1>4 DEF Launch, TypeOK
  <2>2. bundle' = bundle /\ held' = held
    BY <1>4 DEF Launch
  <2>3. HEAD \in 1..HEAD
    BY <1>1
  <2>4. QED
    BY <1>0, <1>1, <1>2, <2>1, <2>2, <2>3 DEF History
<1>5. ASSUME NEW l \in Launches, Publish(l) PROVE History'
  <2>1. bundle'.commit = want[l] /\ want' = want /\ held' = held
    BY <1>5 DEF Publish, NewBundle
  <2>2. QED
    BY <1>0, <1>1, <1>2, <2>1 DEF History
<1>6. CASE Delete \/ \E l \in Launches : TakeBack(l)
  <2>1. bundle' = None /\ want' = want /\ held' = held
    BY <1>6 DEF Delete, TakeBack
  <2>2. QED
    BY <1>0, <1>1, <1>2, <2>1 DEF History
<1>7. CASE ReadReceipt
  <2>1. bundle # None /\ held'.commit = bundle.commit /\ want' = want /\ bundle' = bundle
    BY <1>7 DEF ReadReceipt
  <2>2. QED
    BY <1>0, <1>1, <1>2, <2>1 DEF History
<1>8. CASE Reverify
  <2>1. held'.commit = 1 /\ want' = want /\ bundle' = bundle
    BY <1>8 DEF Reverify, NothingHeld
  <2>2. QED
    BY <1>0, <1>1, <1>2, <2>1 DEF History
<1>9. QED
  BY <1>3, <1>4, <1>5, <1>6, <1>7, <1>8
  DEF Next, Edit, Commit, LauncherStep, Timeout, ReadResponse, CheckIdentity, CheckReceipt,
      LauncherDies, ChildStep, CheckAuthority, MakeStaging, BeforeControl, AfterControl,
      Assemble, Sign, Settle, Answer, Fail, SettleFails, TakeBackFails, Clear, Alter,
      ReadManifest, ReadEvidence, vars

LEMMA NextProgress == ProductionInv /\ [Next]_vars => Progress'
<1> SUFFICES ASSUME ProductionInv, [Next]_vars PROVE Progress'
  OBVIOUS
<1> USE DEF repo, launcher, child, verifier, Launcher, Child, Stage
<1>0. TypeOK /\ History /\ Progress
  BY DEF ProductionInv
<1>1. \A i \in 1..HEAD : commits'[i] = commits[i]
  BY HistoryGrows
\* What a child at this place has behind it, in one launch.
<1> DEFINE At(place, s) ==
      /\ place \in {"before", "after"} =>
           s \in Staging /\ ~s.tainted /\ ~s.manifest /\ ~s.receipt
      /\ place = "after" => s.controls < Controls
      /\ place = "assemble" => s = [Whole EXCEPT !.manifest = FALSE, !.receipt = FALSE]
      /\ place = "sign" => s = [Whole EXCEPT !.receipt = FALSE]
      /\ place = "publish" => s = Whole
      Places == {"mkdir", "before", "after", "assemble", "sign", "publish"}
<1>2. ASSUME NEW l \in Launches,
             \A k \in Launches : k # l =>
               cpc'[k] = cpc[k] /\ staging'[k] = staging[k] /\ want'[k] = want[k],
             At(cpc'[l], staging'[l]),
             cpc'[l] \in Places =>
               (cpc[l] \in Places \/ commits[want[l]].base = "test_fixture") /\ want'[l] = want[l]
      PROVE  Progress'
  <2>1. ASSUME NEW k \in Launches, cpc'[k] \in Places
        PROVE  commits'[want'[k]].base = "test_fixture"
    <3>1. want'[k] = want[k] /\ want[k] \in 1..HEAD
      BY <1>0, <1>2, <2>1 DEF History
    <3>2. commits[want[k]].base = "test_fixture"
      BY <1>0, <1>2, <2>1 DEF Progress
    <3>3. QED
      BY <1>1, <3>1, <3>2
  <2>2. \A k \in Launches : At(cpc'[k], staging'[k])
    BY <1>0, <1>2 DEF Progress
  <2>3. QED
    BY <2>1, <2>2 DEF Progress
<1>3. ASSUME UNCHANGED <<cpc, staging, want>> PROVE Progress'
  <2>1. ASSUME NEW k \in Launches, cpc[k] \in Places
        PROVE  commits'[want'[k]].base = "test_fixture"
    BY <1>0, <1>1, <1>3, <2>1 DEF Progress, History
  <2>2. QED
    BY <1>0, <1>3, <2>1 DEF Progress
<1>4. ASSUME NEW l \in Launches, Launch(l) PROVE Progress'
  <2>1. /\ \A k \in Launches : k # l =>
             cpc'[k] = cpc[k] /\ staging'[k] = staging[k] /\ want'[k] = want[k]
        /\ cpc'[l] = "check"
    BY <1>0, <1>4 DEF Launch, TypeOK
  <2>2. QED
    BY <1>2, <2>1
<1>5. ASSUME NEW l \in Launches, Timeout(l) PROVE Progress'
  <2>1. /\ \A k \in Launches : k # l =>
             cpc'[k] = cpc[k] /\ staging'[k] = staging[k] /\ want'[k] = want[k]
        /\ cpc'[l] = "dead"
    BY <1>0, <1>5 DEF Timeout, TypeOK
  <2>2. QED
    BY <1>2, <2>1
<1>6. ASSUME NEW l \in Launches, CheckAuthority(l) PROVE Progress'
  <2>1. /\ \A k \in Launches : k # l =>
             cpc'[k] = cpc[k] /\ staging'[k] = staging[k] /\ want'[k] = want[k]
        /\ cpc'[l] = "mkdir" /\ want' = want
    BY <1>0, <1>6 DEF CheckAuthority, TypeOK
  <2>2. commits[want[l]].base = "test_fixture"
    BY <1>6 DEF CheckAuthority, IdentityHolds, Clean
  <2>3. QED
    BY <1>2, <2>1, <2>2
<1>7. ASSUME NEW l \in Launches, MakeStaging(l) PROVE Progress'
  <2>1. /\ \A k \in Launches : k # l =>
             cpc'[k] = cpc[k] /\ staging'[k] = staging[k] /\ want'[k] = want[k]
        /\ cpc[l] = "mkdir" /\ cpc'[l] = "before" /\ staging'[l] = EmptyStaging /\ want' = want
    BY <1>0, <1>7 DEF MakeStaging, TypeOK
  <2>2. EmptyStaging \in Staging
    BY ProductionAssumption DEF EmptyStaging, Staging
  <2>3. At("before", EmptyStaging)
    BY <2>2 DEF EmptyStaging
  <2>4. QED
    BY <1>2, <2>1, <2>3
<1>8. ASSUME NEW l \in Launches, BeforeControl(l) PROVE Progress'
  <2>1. /\ \A k \in Launches : k # l =>
             cpc'[k] = cpc[k] /\ staging'[k] = staging[k] /\ want'[k] = want[k]
        /\ cpc[l] = "before" /\ cpc'[l] = "after" /\ staging' = staging /\ want' = want
        /\ staging[l].controls < Controls
    BY <1>0, <1>8 DEF BeforeControl, TypeOK
  <2>2. At("after", staging[l])
    BY <1>0, <2>1 DEF Progress
  <2>3. QED
    BY <1>2, <2>1, <2>2
<1>9. ASSUME NEW l \in Launches, AfterControl(l) PROVE Progress'
  <2> DEFINE s == staging[l]
             new == [s EXCEPT !.controls = @ + 1, !.tainted = @ \/ altered[l]]
  <2>1. s \in Staging /\ ~s.tainted /\ ~s.manifest /\ ~s.receipt /\ s.controls < Controls
    BY <1>0, <1>9 DEF AfterControl, Progress
  <2>2. ~altered[l] /\ altered[l] \in BOOLEAN
    BY <1>0, <1>9 DEF AfterControl, RunnerUnchanged, TypeOK
  <2>3. /\ \A k \in Launches : k # l =>
             cpc'[k] = cpc[k] /\ staging'[k] = staging[k] /\ want'[k] = want[k]
        /\ cpc[l] = "after" /\ staging'[l] = new /\ want' = want
        /\ cpc'[l] = IF s.controls + 1 = Controls THEN "assemble" ELSE "before"
    BY <1>0, <1>9 DEF AfterControl, TypeOK
  <2>4. new = [s EXCEPT !.controls = s.controls + 1, !.tainted = FALSE]
    BY <2>1, <2>2 DEF Staging
  <2>5. new \in Staging
    BY <2>1, <2>2, ControlTyped
  <2>6. /\ new.controls = s.controls + 1 /\ new.tainted = FALSE
        /\ new.manifest = FALSE /\ new.receipt = FALSE
    BY <2>1, <2>4 DEF Staging
  <2> HIDE DEF new, s
  <2>7. CASE s.controls + 1 = Controls
    <3>1. new = [Whole EXCEPT !.manifest = FALSE, !.receipt = FALSE]
      BY <2>5, <2>6, <2>7, WholeByParts
    <3>2. QED
      BY <1>2, <2>3, <2>7, <3>1
  <2>8. CASE s.controls + 1 # Controls
    BY <1>2, <2>3, <2>5, <2>6, <2>8
  <2>9. QED
    BY <2>7, <2>8
<1>10. ASSUME NEW l \in Launches, Assemble(l) PROVE Progress'
  <2>1. /\ \A k \in Launches : k # l =>
             cpc'[k] = cpc[k] /\ staging'[k] = staging[k] /\ want'[k] = want[k]
        /\ cpc[l] = "assemble" /\ cpc'[l] = "sign" /\ want' = want
        /\ staging'[l] = [staging[l] EXCEPT !.manifest = TRUE]
    BY <1>0, <1>10 DEF Assemble, TypeOK
  <2>2. staging'[l] = [Whole EXCEPT !.receipt = FALSE]
    BY <1>0, <2>1, WholeByParts DEF Progress
  <2>3. QED
    BY <1>2, <2>1, <2>2
<1>11. ASSUME NEW l \in Launches, Sign(l) PROVE Progress'
  <2>1. /\ \A k \in Launches : k # l =>
             cpc'[k] = cpc[k] /\ staging'[k] = staging[k] /\ want'[k] = want[k]
        /\ cpc[l] = "sign" /\ cpc'[l] = "publish" /\ want' = want
        /\ staging'[l] = [staging[l] EXCEPT !.receipt = TRUE]
    BY <1>0, <1>11 DEF Sign, TypeOK
  <2>2. staging'[l] = Whole
    BY <1>0, <2>1, WholeByParts DEF Progress
  <2>3. QED
    BY <1>2, <2>1, <2>2
<1>12. ASSUME NEW l \in Launches,
              \/ Publish(l) \/ Settle(l) \/ Answer(l) \/ Fail(l) \/ SettleFails(l)
              \/ TakeBack(l) \/ TakeBackFails(l) \/ Clear(l)
       PROVE  Progress'
  <2>1. \A k \in Launches : k # l =>
          cpc'[k] = cpc[k] /\ staging'[k] = staging[k] /\ want'[k] = want[k]
    BY <1>0, <1>12 DEF Publish, Settle, Answer, Fail, SettleFails, TakeBack, TakeBackFails,
       Clear, TypeOK
  <2>2. cpc'[l] \in {"settle", "answer", "done", "clear", "takeback"}
    BY <1>0, <1>12 DEF Publish, Settle, Answer, Fail, SettleFails, TakeBack, TakeBackFails,
       Clear, TypeOK
  <2>3. QED
    BY <1>2, <2>1, <2>2
<1>13. QED
  BY <1>3, <1>4, <1>5, <1>6, <1>7, <1>8, <1>9, <1>10, <1>11, <1>12
  DEF Next, Edit, Commit, Delete, LauncherStep, ReadResponse, CheckIdentity, CheckReceipt,
      LauncherDies, ChildStep, Alter, ReadReceipt, ReadManifest, ReadEvidence, Reverify, vars

LEMMA NextPublished == ProductionInv /\ [Next]_vars => Published'
<1> SUFFICES ASSUME ProductionInv, [Next]_vars PROVE Published'
  OBVIOUS
<1> USE DEF repo, launcher, child, verifier, Launcher, Child
<1>0. TypeOK /\ History /\ Progress /\ Published
  BY DEF ProductionInv
<1>1. \A i \in 1..HEAD : commits'[i] = commits[i]
  BY HistoryGrows
<1>2. bundle # None => bundle.by \in Launches
  BY <1>0 DEF TypeOK, Bundle
<1>3. ASSUME bundle' = bundle, \A k \in Launches : cpc[k] # "off" => want'[k] = want[k] /\ cpc'[k] # "off"
      PROVE  Published'
  BY <1>0, <1>1, <1>2, <1>3 DEF Published, History
<1>4. ASSUME NEW l \in Launches, Launch(l) PROVE Published'
  BY <1>0, <1>3, <1>4 DEF Launch, TypeOK
<1>5. ASSUME NEW l \in Launches, Publish(l) PROVE Published'
  <2>1. /\ bundle' = NewBundle(l) /\ want' = want /\ cpc'[l] = "settle" /\ cpc[l] = "publish"
    BY <1>0, <1>5 DEF Publish, TypeOK
  <2>2. staging[l] = Whole /\ commits[want[l]].base = "test_fixture" /\ want[l] \in 1..HEAD
    BY <1>0, <2>1 DEF Progress, History
  <2>3. QED
    BY <1>1, <2>1, <2>2 DEF Published, NewBundle
<1>6. CASE Delete \/ \E l \in Launches : TakeBack(l)
  BY <1>6 DEF Delete, TakeBack, Published
<1>7. ASSUME NEW l \in Launches, NEW place, place # "off", cpc' = [cpc EXCEPT ![l] = place],
             UNCHANGED <<bundle, want>>
      PROVE  Published'
  BY <1>0, <1>3, <1>7 DEF TypeOK
<1>8. ASSUME NEW l \in Launches,
             \/ Timeout(l) \/ CheckAuthority(l) \/ MakeStaging(l) \/ BeforeControl(l)
             \/ Assemble(l) \/ Sign(l) \/ Settle(l) \/ Answer(l)
             \/ Fail(l) \/ SettleFails(l) \/ TakeBackFails(l) \/ Clear(l)
      PROVE  Published'
  BY <1>7, <1>8 DEF Timeout, CheckAuthority, MakeStaging, BeforeControl, Assemble, Sign, Settle,
     Answer, Fail, SettleFails, TakeBackFails, Clear
<1>9. ASSUME NEW l \in Launches, AfterControl(l) PROVE Published'
  BY <1>7, <1>9 DEF AfterControl
<1>10. ASSUME UNCHANGED <<bundle, want, cpc>> PROVE Published'
  BY <1>3, <1>10
<1>11. QED
  BY <1>4, <1>5, <1>6, <1>8, <1>9, <1>10
  DEF Next, Edit, Commit, LauncherStep, ReadResponse, CheckIdentity, CheckReceipt,
      LauncherDies, ChildStep, Alter, ReadReceipt, ReadManifest, ReadEvidence, Reverify, vars

LEMMA NextSettled == ProductionInv /\ [Next]_vars => Settled'
<1> SUFFICES ASSUME ProductionInv, [Next]_vars, deletions' = 0 PROVE Settled'
  BY DEF Settled
<1> USE DEF repo, launcher, child, verifier, Launcher, Child
<1>0. TypeOK /\ Settled
  BY DEF ProductionInv
<1>1. CASE Delete
  BY <1>0, <1>1, ProductionAssumption DEF Delete, TypeOK
<1>2. ASSUME UNCHANGED <<bundle, deletions>>,
             \A k \in Launches : cpc'[k] \in {"settle", "takeback"} => cpc[k] \in {"settle", "takeback"}
      PROVE  Settled'
  BY <1>0, <1>2 DEF Settled
<1>3. ASSUME NEW l \in Launches, NEW place, cpc' = [cpc EXCEPT ![l] = place],
             place \in {"settle", "takeback"} => cpc[l] \in {"settle", "takeback"},
             UNCHANGED <<bundle, deletions>>
      PROVE  Settled'
  BY <1>0, <1>2, <1>3 DEF TypeOK
<1>4. ASSUME NEW l \in Launches,
             \/ Launch(l) \/ Timeout(l) \/ CheckAuthority(l) \/ MakeStaging(l) \/ BeforeControl(l)
             \/ Assemble(l) \/ Sign(l) \/ Settle(l) \/ Answer(l)
             \/ Fail(l) \/ SettleFails(l) \/ TakeBackFails(l) \/ Clear(l)
      PROVE  Settled'
  BY <1>3, <1>4 DEF Launch, Timeout, CheckAuthority, MakeStaging, BeforeControl, Assemble, Sign,
     Settle, Answer, Fail, SettleFails, TakeBackFails, Clear
<1>5. ASSUME NEW l \in Launches, AfterControl(l) PROVE Settled'
  BY <1>3, <1>5 DEF AfterControl
<1>6. ASSUME NEW l \in Launches, Publish(l) PROVE Settled'
  <2>1. bundle = None /\ deletions = 0
    BY <1>6 DEF Publish
  <2>2. \A k \in Launches : cpc[k] \notin {"settle", "takeback"}
    BY <1>0, <2>1 DEF Settled
  <2>3. /\ \A k \in Launches : cpc'[k] = IF k = l THEN "settle" ELSE cpc[k]
        /\ bundle' = NewBundle(l) /\ staging[l] = Whole
    BY <1>0, <1>6 DEF Publish, TypeOK, ProductionInv, Progress
  <2>4. NewBundle(l).by = l
    BY DEF NewBundle
  <2>5. bundle' # None
    <3>1. staging[l] \in Staging /\ want[l] \in 1..MaxCommits
      BY <1>0, <2>3, WholeTyped DEF TypeOK
    <3>2. NewBundle(l) \in Bundle
      BY <3>1 DEF NewBundle, Bundle
    <3>3. QED
      BY <2>3, <3>2, NoneIsNoBundle
  <2>6. QED
    BY <2>2, <2>3, <2>4, <2>5 DEF Settled
<1>7. ASSUME NEW l \in Launches, TakeBack(l) PROVE Settled'
  <2>1. bundle # None /\ bundle.by = l /\ deletions = 0
    BY <1>0, <1>7 DEF TakeBack, Settled
  <2>2. \A k \in Launches : cpc[k] \in {"settle", "takeback"} => k = l
    BY <1>0, <2>1 DEF Settled
  <2>3. \A k \in Launches : cpc'[k] \notin {"settle", "takeback"}
    BY <1>0, <1>7, <2>2 DEF TakeBack, TypeOK
  <2>4. QED
    BY <2>3 DEF Settled
<1>8. ASSUME UNCHANGED <<bundle, deletions, cpc>> PROVE Settled'
  BY <1>2, <1>8
<1>9. QED
  BY <1>1, <1>4, <1>5, <1>6, <1>7, <1>8
  DEF Next, Edit, Commit, LauncherStep, ReadResponse, CheckIdentity, CheckReceipt,
      LauncherDies, ChildStep, Alter, ReadReceipt, ReadManifest, ReadEvidence, Reverify, vars

LEMMA NextAnswered == ProductionInv /\ [Next]_vars => Answered'
<1> SUFFICES ASSUME ProductionInv, [Next]_vars PROVE Answered'
  OBVIOUS
<1> USE DEF repo, launcher, child, verifier, Launcher, Child
<1>0. TypeOK /\ Answered
  BY DEF ProductionInv
\* A child that has ended takes no step, and its answer stays.
<1>1. ASSUME NEW l \in Launches, UNCHANGED lpc, cpc[l] # "done",
             \A k \in Launches : k # l => cpc'[k] = cpc[k] /\ response'[k] = response[k]
      PROVE  Answered'
  BY <1>0, <1>1 DEF Answered
<1>2. ASSUME NEW l \in Launches, lpc'[l] \in {"identity", "receipt"} => cpc'[l] = "done" /\ response'[l] = "published",
             \A k \in Launches : k # l =>
               lpc'[k] = lpc[k] /\ cpc'[k] = cpc[k] /\ response'[k] = response[k]
      PROVE  Answered'
  BY <1>0, <1>2 DEF Answered
<1>3. ASSUME UNCHANGED <<lpc, cpc, response>> PROVE Answered'
  BY <1>0, <1>3 DEF Answered
<1>4. ASSUME NEW l \in Launches, Launch(l) PROVE Answered'
  <2>1. lpc'[l] = "wait" /\ \A k \in Launches : k # l =>
          lpc'[k] = lpc[k] /\ cpc'[k] = cpc[k] /\ response'[k] = response[k]
    BY <1>0, <1>4 DEF Launch, TypeOK
  <2>2. QED
    BY <1>2, <2>1
<1>5. ASSUME NEW l \in Launches, Timeout(l) \/ LauncherDies(l) PROVE Answered'
  <2>1. lpc'[l] = "failed" /\ \A k \in Launches : k # l =>
          lpc'[k] = lpc[k] /\ cpc'[k] = cpc[k] /\ response'[k] = response[k]
    BY <1>0, <1>5 DEF Timeout, LauncherDies, TypeOK
  <2>2. QED
    BY <1>2, <2>1
<1>6. ASSUME NEW l \in Launches, ReadResponse(l) \/ CheckIdentity(l) \/ CheckReceipt(l)
      PROVE  Answered'
  <2>1. /\ \A k \in Launches : k # l => lpc'[k] = lpc[k]
        /\ cpc' = cpc /\ response' = response
    BY <1>0, <1>6 DEF ReadResponse, CheckIdentity, CheckReceipt, TypeOK
  <2>2. lpc'[l] \in {"identity", "receipt"} => cpc[l] = "done" /\ response[l] = "published"
    <3>1. CASE ReadResponse(l)
      BY <1>0, <3>1 DEF ReadResponse, TypeOK
    <3>2. CASE CheckIdentity(l) \/ CheckReceipt(l)
      BY <1>0, <3>2 DEF CheckIdentity, CheckReceipt, TypeOK, Answered
    <3>3. QED
      BY <1>6, <3>1, <3>2
  <2>3. QED
    BY <1>2, <2>1, <2>2
<1>7. ASSUME NEW l \in Launches,
             \/ CheckAuthority(l) \/ MakeStaging(l) \/ BeforeControl(l) \/ Assemble(l) \/ Sign(l)
             \/ Publish(l) \/ Settle(l) \/ Answer(l) \/ Fail(l) \/ SettleFails(l) \/ TakeBack(l)
             \/ TakeBackFails(l) \/ Clear(l)
      PROVE  Answered'
  <2>1. cpc[l] # "done" /\ lpc' = lpc
    BY <1>7 DEF CheckAuthority, MakeStaging, BeforeControl, Assemble, Sign, Publish, Settle,
       Answer, Fail, SettleFails, TakeBack, TakeBackFails, Clear
  <2>2. \A k \in Launches : k # l => cpc'[k] = cpc[k] /\ response'[k] = response[k]
    BY <1>0, <1>7 DEF CheckAuthority, MakeStaging, BeforeControl, Assemble, Sign, Publish, Settle,
       Answer, Fail, SettleFails, TakeBack, TakeBackFails, Clear, TypeOK
  <2>3. QED
    BY <1>1, <2>1, <2>2
<1>8. ASSUME NEW l \in Launches, AfterControl(l) PROVE Answered'
  <2>1. cpc[l] # "done" /\ lpc' = lpc /\ response' = response
        /\ \A k \in Launches : k # l => cpc'[k] = cpc[k]
    BY <1>0, <1>8 DEF AfterControl, TypeOK
  <2>2. QED
    BY <1>1, <2>1
<1>9. QED
  BY <1>3, <1>4, <1>5, <1>6, <1>7, <1>8
  DEF Next, Edit, Commit, Delete, LauncherStep, ChildStep, Alter, ReadReceipt, ReadManifest,
      ReadEvidence, Reverify, vars

LEMMA NextVerifying == ProductionInv /\ [Next]_vars => Verifying'
<1> SUFFICES ASSUME ProductionInv, [Next]_vars PROVE Verifying'
  OBVIOUS
<1> USE DEF repo, launcher, child, verifier
<1>0. TypeOK /\ History /\ Verifying
  BY DEF ProductionInv
<1>1. \A i \in 1..HEAD : commits'[i] = commits[i]
  BY HistoryGrows
<1>2. CASE UNCHANGED <<vpc, held, seen>>
  BY <1>0, <1>1, <1>2 DEF Verifying, History
<1>3. CASE ReadReceipt
  BY <1>3 DEF ReadReceipt, Verifying
<1>4. CASE ReadManifest
  <2>1. /\ held' = held /\ commits' = commits /\ seen' = seen \cup {bundle.by}
        /\ seen = {held.by} /\ bundle.by = held.by
        /\ held.contract = [commits[held.commit] EXCEPT !.suite = held.by]
    BY <1>0, <1>4 DEF ReadManifest, BoundFile, Transition, Verifying
  <2>2. commits[held.commit] \in Contract
    BY <1>0 DEF TypeOK, History, HEAD
  <2>3. held.contract.base = commits[held.commit].base
    BY <2>1, <2>2 DEF Contract
  <2>4. QED
    BY <2>1, <2>3 DEF Verifying
<1>5. CASE ReadEvidence
  BY <1>0, <1>5 DEF ReadEvidence, BoundFile, Verifying
<1>6. CASE Reverify
  BY <1>6 DEF Reverify, Verifying
<1>7. QED
  BY <1>2, <1>3, <1>4, <1>5, <1>6
  DEF Next, Edit, Commit, Delete, Launch, LauncherStep, Timeout, ReadResponse, CheckIdentity,
      CheckReceipt, LauncherDies, ChildStep, CheckAuthority, MakeStaging, BeforeControl,
      AfterControl, Assemble, Sign, Publish, Settle, Answer, Fail, SettleFails, TakeBack,
      TakeBackFails, Clear, Alter, vars

LEMMA ProductionInvariant == Spec => []ProductionInv
<1>1. ProductionInv /\ [Next]_vars => ProductionInv'
  BY NextTypeOK, NextHistory, NextProgress, NextPublished, NextSettled, NextAnswered,
     NextVerifying DEF ProductionInv
<1>2. QED
  BY InitProduction, <1>1, PTL DEF Spec

-----------------------------------------------------------------------------
\* Every launcher, child and verifier variable keeps its type; a staging directory holds
\* evidence of at most the suite's controls.
THEOREM ProductionTypeCorrect == Spec => []TypeOK
<1>1. ProductionInv => TypeOK
  BY DEF ProductionInv
<1>2. QED
  BY ProductionInvariant, <1>1, PTL

\* _produce_fixture_bundle: what is at the published path is always finished and clean.
\* The point is the staging directory: whatever is renamed has passed every comparison
\* on the way (Progress), whoever is killed and wherever, however many launches compete.
THEOREM BundlesAreWhole == Spec => []PublishedIsWhole
<1>1. ProductionInv => PublishedIsWhole
  BY DEF ProductionInv, Published, PublishedIsWhole, Whole
<1>2. QED
  BY ProductionInvariant, <1>1, PTL

\* verify_admission_control_bundle: what a verifier accepts is one launch's bundle, and
\* differs from the contract it ran under by the suite alone, though the bundle be
\* deleted and replaced and commits be added between its reads.
THEOREM VerifierReadsOneBundle == Spec => []AcceptedIsOneBundle
<1>1. ProductionInv => AcceptedIsOneBundle
  BY DEF ProductionInv, Verifying, AcceptedIsOneBundle
<1>2. QED
  BY ProductionInvariant, <1>1, PTL

\* _rename_no_replace_at and the way back: a published bundle is never replaced in place,
\* and nobody but its own producer takes it back until an operator has deleted one.
THEOREM BundlesAreFinal == Spec => PublishedIsFinal
<1> DEFINE Final ==
      bundle # None /\ bundle' # bundle =>
        /\ bundle' = None
        /\ deletions' # deletions \/ cpc[bundle.by] = "takeback" \/ deletions > 0
<1>1. ProductionInv /\ [Next]_vars => [Final]_vars
  <2> SUFFICES ASSUME ProductionInv, [Next]_vars, bundle # None, bundle' # bundle
               PROVE  Final
    BY DEF Final
  <2> USE DEF repo, launcher, child, verifier, Launcher, Child
  <2>0. TypeOK /\ Settled
    BY DEF ProductionInv
  <2>1. CASE Delete
    BY <2>0, <2>1, ProductionAssumption DEF Delete, TypeOK
  <2>2. ASSUME NEW l \in Launches, TakeBack(l) PROVE Final
    <3>1. bundle' = None /\ cpc[l] = "takeback"
      BY <2>2 DEF TakeBack
    <3>2. deletions = 0 \/ deletions > 0
      BY <2>0, ProductionAssumption DEF TypeOK
    <3>3. deletions = 0 => bundle.by = l
      BY <2>0, <3>1 DEF Settled
    <3>4. QED
      BY <3>1, <3>2, <3>3
  <2>3. Delete \/ \E l \in Launches : TakeBack(l)
    BY DEF Next, Edit, Commit, Launch, LauncherStep, Timeout, ReadResponse, CheckIdentity,
       CheckReceipt, LauncherDies, ChildStep, CheckAuthority, MakeStaging, BeforeControl,
       AfterControl, Assemble, Sign, Publish, Settle, Answer, Fail, SettleFails,
       TakeBackFails, Clear, Alter, ReadReceipt, ReadManifest, ReadEvidence, Reverify, vars
  <2>4. QED
    BY <2>1, <2>2, <2>3
<1>2. QED
  BY ProductionInvariant, <1>1, PTL DEF Spec, PublishedIsFinal

\* generate_admission_control_bundle: a launch that succeeds has seen its own child's
\* bundle, made for the commit it asked for, and a child that answered it.
THEOREM SuccessIsVouchedFor == Spec => LauncherVouches
<1> DEFINE Vouched ==
      \A l \in Launches : lpc[l] # "succeeded" /\ lpc'[l] = "succeeded" =>
        /\ bundle # None /\ bundle.by = l /\ bundle.commit = want[l]
        /\ response[l] = "published"
<1>1. ProductionInv /\ [Next]_vars => [Vouched]_vars
  <2> SUFFICES ASSUME ProductionInv, [Next]_vars,
                      NEW l \in Launches, lpc[l] # "succeeded", lpc'[l] = "succeeded"
               PROVE  /\ bundle # None /\ bundle.by = l /\ bundle.commit = want[l]
                      /\ response[l] = "published"
    BY DEF Vouched
  <2> USE DEF repo, launcher, child, verifier, Launcher, Child
  <2>0. TypeOK /\ Published /\ Answered
    BY DEF ProductionInv
  <2>1. ASSUME NEW k \in Launches,
               Launch(k) \/ Timeout(k) \/ LauncherDies(k) \/ ReadResponse(k) \/ CheckIdentity(k)
        PROVE  FALSE
    <3>1. PICK to \in {"wait", "failed", "identity", "receipt"} : lpc' = [lpc EXCEPT ![k] = to]
      BY <2>1 DEF Launch, Timeout, LauncherDies, ReadResponse, CheckIdentity
    <3>2. QED
      BY <2>0, <3>1 DEF TypeOK
  <2>2. ASSUME NEW k \in Launches, CheckReceipt(k)
        PROVE  k = l /\ lpc[l] = "receipt" /\ bundle # None /\ bundle.by = l
    BY <2>0, <2>2 DEF CheckReceipt, TypeOK
  <2>3. lpc' # lpc
    OBVIOUS
  <2>4. \E k \in Launches :
          Launch(k) \/ Timeout(k) \/ LauncherDies(k) \/ ReadResponse(k) \/ CheckIdentity(k)
          \/ CheckReceipt(k)
    BY <2>3 DEF Next, Edit, Commit, Delete, LauncherStep, ChildStep, CheckAuthority, MakeStaging,
       BeforeControl, AfterControl, Assemble, Sign, Publish, Settle, Answer, Fail, SettleFails,
       TakeBack, TakeBackFails, Clear, Alter, ReadReceipt, ReadManifest, ReadEvidence,
       Reverify, vars
  <2>5. lpc[l] = "receipt" /\ bundle # None /\ bundle.by = l
    BY <2>1, <2>2, <2>4
  <2>6. QED
    BY <2>0, <2>5 DEF Published, Answered
<1>2. QED
  BY ProductionInvariant, <1>1, PTL DEF Spec, LauncherVouches
=============================================================================
