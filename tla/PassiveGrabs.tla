------------------------------ MODULE PassiveGrabs ------------------------------
(* The passive grabs of one window (dix/grabs.c): a list of grabs, each for    *)
(* one key or all but some keys, with one set of modifiers or all but some.    *)
(* The grabs of this list are all of one device and kind (keys with modifiers  *)
(* of the keyboard; buttons are the same code): GrabMatchesSecond keeps grabs  *)
(* of different kinds apart before anything else.                              *)
(*   An allocation may fail anywhere; a request then fails with BadAlloc.      *)
EXTENDS Integers, Sequences, FiniteSets

CONSTANTS Clients, NoClient,
          Keys, AnyKey,            \* the values of detail.exact
          Modifiers, AnyModifier,  \* the values of modifiersDetail.exact
          Modes,                   \* what a grab asks besides: keyboardMode, pointerMode, ...
          MaxGrabs                 \* no grab is asked for when the list is that long

ASSUME ClientsAssumption == NoClient \notin Clients
ASSUME AnyAssumption == AnyKey \notin Keys /\ AnyModifier \notin Modifiers
ASSUME MaxGrabsAssumption == MaxGrabs \in Nat

VARIABLE passiveGrabs              \* window->optional->passiveGrabs, its head first

vars == passiveGrabs

--------------------------------------------------------------------------------
(* A DetailRec: exact, and the values that the bits of pMask exclude when      *)
(* exact is the wildcard.  No value is excluded where pMask is NULL; a mask is *)
(* made by clearing a bit, so at least one is excluded where it is not.        *)
Exactly(x) == [exact |-> x, excluded |-> {}]

CreateGrab(c, detail, modifiersDetail, mode) ==
  [client |-> c, detail |-> detail, modifiersDetail |-> modifiersDetail, mode |-> mode]

DeleteDetailFromMask(d, x) == [d EXCEPT !.excluded = @ \cup {x}]

IsInGrabMask(first, second, exception) ==
  /\ first.exact = exception
  /\ \/ first.excluded = {}
     \/ second.exact # exception /\ second.exact \notin first.excluded

IdenticalExactDetails(x, y, exception) == x # exception /\ y # exception /\ x = y

DetailSupersedesSecond(first, second, exception) ==
  \/ IsInGrabMask(first, second, exception)
  \/ IdenticalExactDetails(first.exact, second.exact, exception)

ModifiersSupersede(g, h) ==
  DetailSupersedesSecond(g.modifiersDetail, h.modifiersDetail, AnyModifier)

DetailsSupersede(g, h) == DetailSupersedesSecond(g.detail, h.detail, AnyKey)

GrabSupersedesSecond(g, h) == ModifiersSupersede(g, h) /\ DetailsSupersede(g, h)

OneSupersedes(g, h) == GrabSupersedesSecond(g, h) \/ GrabSupersedesSecond(h, g)

GrabMatchesSecond(g, h) ==
  \/ GrabSupersedesSecond(g, h)
  \/ GrabSupersedesSecond(h, g)
  \/ DetailsSupersede(h, g) /\ ModifiersSupersede(g, h)
  \/ DetailsSupersede(g, h) /\ ModifiersSupersede(h, g)

(* The grab that a press of the key finds, the first of the list that matches  *)
(* (CheckPassiveGrabsOnWindow; a grab's confine-to window is left out).         *)
Matching(key, mods) ==
  {i \in DOMAIN passiveGrabs :
     GrabMatchesSecond(CreateGrab(NoClient, Exactly(key), Exactly(mods), {}), passiveGrabs[i])}

First(indices) == CHOOSE i \in indices : \A j \in indices : i <= j

--------------------------------------------------------------------------------
(* The part of a list that is left when only the grabs at some places are kept:*)
(* the n-th kept one has n - 1 kept ones before it.                            *)
Place(kept, n) == CHOOSE i \in kept : Cardinality({j \in kept : j < i}) = n - 1

Sublist(list, kept) == [n \in 1 .. Cardinality(kept) |-> list[Place(kept, n)]]

(* FreeResource on grabs: DeletePassiveGrab unlinks each of them.              *)
DeletePassiveGrabs(indices) == Sublist(passiveGrabs, DOMAIN passiveGrabs \ indices)

ConflictsWith(g) ==
  \E i \in DOMAIN passiveGrabs :
    GrabMatchesSecond(g, passiveGrabs[i]) /\ passiveGrabs[i].client # g.client

(* BadAccess and BadAlloc leave the list as it was: a grab whose resource      *)
(* cannot be added has been linked, and is unlinked again.                     *)
AddPassiveGrabToList(g) ==
  \/ ~ConflictsWith(g) /\ passiveGrabs' = <<g>> \o passiveGrabs
  \/ passiveGrabs' = Tail(<<g>> \o passiveGrabs)

--------------------------------------------------------------------------------
(* DeletePassiveGrabFromList(minuend): what is to become of each grab.         *)
Concerned(g, minuend) == g.client = minuend.client /\ GrabMatchesSecond(g, minuend)

Deleted(minuend) ==
  {i \in DOMAIN passiveGrabs : /\ Concerned(passiveGrabs[i], minuend)
                               /\ GrabSupersedesSecond(minuend, passiveGrabs[i])}

WithoutKey(g, minuend) ==
  [g EXCEPT !.detail = DeleteDetailFromMask(@, minuend.detail.exact)]

WithoutModifiers(g, minuend) ==
  [g EXCEPT !.modifiersDetail = DeleteDetailFromMask(@, minuend.modifiersDetail.exact)]

AllKeys(g) == g.detail.exact = AnyKey
AllModifiers(g) == g.modifiersDetail.exact = AnyModifier

(* Where only one of the grab's masks can be narrowed, that one is; where both *)
(* could, the one that the minuend does not cover altogether.                  *)
MinuendDecides(g, minuend) == ~AllKeys(minuend)

LosesKey(g, minuend) ==
  IF AllKeys(g) = AllModifiers(g) THEN ~AllKeys(minuend) ELSE AllKeys(g)

(* A grab of all keys with all modifiers that loses one key with one set of    *)
(* modifiers: the old grab loses the key, and a new one has the key with all   *)
(* the modifiers but the released ones.                                        *)
IsSplit(g, minuend) ==
  /\ Concerned(g, minuend) /\ ~GrabSupersedesSecond(minuend, g)
  /\ AllKeys(g) = AllModifiers(g)
  /\ ~AllKeys(minuend) /\ ~AllModifiers(minuend)

Updated(g, minuend) ==
  IF ~Concerned(g, minuend) THEN g
  ELSE IF LosesKey(g, minuend) THEN WithoutKey(g, minuend)
  ELSE WithoutModifiers(g, minuend)

NewGrab(g, minuend) ==
  CreateGrab(g.client, minuend.detail,
             DeleteDetailFromMask(g.modifiersDetail, minuend.modifiersDetail.exact), g.mode)

(* Each new grab is pushed on the head, the last one found comes first.        *)
Added(minuend) ==
  LET reversed == [i \in DOMAIN passiveGrabs |-> passiveGrabs[Len(passiveGrabs) + 1 - i]]
      split == {i \in DOMAIN reversed : IsSplit(reversed[i], minuend)}
  IN  Sublist([i \in DOMAIN reversed |-> NewGrab(reversed[i], minuend)], split)

Updates(minuend) == [i \in DOMAIN passiveGrabs |-> Updated(passiveGrabs[i], minuend)]

(* When an allocation fails at the n-th grab, what was made for the ones before *)
(* is freed.  None of it has been linked or put in place by then.              *)
LeftUpdated(minuend, n) ==
  [i \in DOMAIN passiveGrabs |->
     IF i \in 1 .. n - 1 \ Deleted(minuend) THEN Updates(minuend)[i] ELSE passiveGrabs[i]]

BackedOut(minuend, n) == passiveGrabs

DeletePassiveGrabFromList(minuend) ==
  \/ passiveGrabs' =
       Added(minuend) \o Sublist(Updates(minuend), DOMAIN passiveGrabs \ Deleted(minuend))
  \/ \E n \in DOMAIN passiveGrabs : passiveGrabs' = BackedOut(minuend, n)

--------------------------------------------------------------------------------
(* The requests, and what else takes grabs away.                               *)
GrabKey(c, key, mods, mode) ==
  /\ Len(passiveGrabs) < MaxGrabs
  /\ AddPassiveGrabToList(CreateGrab(c, Exactly(key), Exactly(mods), mode))

UngrabKey(c, key, mods) ==
  DeletePassiveGrabFromList(CreateGrab(c, Exactly(key), Exactly(mods), {}))

FreeClientResources(c) ==
  passiveGrabs' = DeletePassiveGrabs({i \in DOMAIN passiveGrabs : passiveGrabs[i].client = c})

DeleteWindowFromAnyEvents == passiveGrabs' = DeletePassiveGrabs(DOMAIN passiveGrabs)

Init == passiveGrabs = <<>>

AnyOrKeys == Keys \cup {AnyKey}
AnyOrModifiers == Modifiers \cup {AnyModifier}

Next ==
  \/ \E c \in Clients, key \in AnyOrKeys, mods \in AnyOrModifiers, mode \in Modes :
       GrabKey(c, key, mods, mode)
  \/ \E c \in Clients, key \in AnyOrKeys, mods \in AnyOrModifiers : UngrabKey(c, key, mods)
  \/ \E c \in Clients : FreeClientResources(c)
  \/ DeleteWindowFromAnyEvents

Spec == Init /\ [][Next]_vars
--------------------------------------------------------------------------------
Details(values, any) ==
  [exact : values, excluded : {{}}] \cup [exact : {any}, excluded : SUBSET values]

Grabs == [client : Clients, detail : Details(Keys, AnyKey),
          modifiersDetail : Details(Modifiers, AnyModifier), mode : Modes]

(* A mask belongs to a wildcard, and names keys (or modifiers) only: an        *)
(* UngrabKey narrows the mask that it should (dix/grabs.c:347-402).            *)
TypeOK == passiveGrabs \in Seq(Grabs)

(* No key press finds grabs of two clients: whatever was granted, narrowed and *)
(* split before, AddPassiveGrabToList sees every conflict (grabs.c:285-294).   *)
Exclusive ==
  \A key \in Keys, mods \in Modifiers : \A i, j \in Matching(key, mods) :
    passiveGrabs[i].client = passiveGrabs[j].client

(* The client whose grab a press of the key activates.                         *)
Owner == [p \in Keys \X Modifiers |->
            LET found == Matching(p[1], p[2])
            IN  IF found = {} THEN NoClient ELSE passiveGrabs[First(found)].client]

Table == INSTANCE GrabTable WITH owner <- Owner

(* A request gives or takes exactly the combinations it names, of its client,  *)
(* or none of them: also when a grab was narrowed or split before, and when    *)
(* an allocation fails halfway (grabs.c:404-429).                              *)
ActsOnWhatIsNamed ==
  [][passiveGrabs' # passiveGrabs =>
       LET before == Owner  after == Owner'
       IN  \A c \in Clients, key \in AnyOrKeys, mods \in AnyOrModifiers :
             /\ (\E mode \in Modes : GrabKey(c, key, mods, mode))
                  => /\ Table!Grantable(before, c, key, mods)
                     /\ after = Table!Granted(before, c, key, mods)
             /\ UngrabKey(c, key, mods) => after = Table!Released(before, c, key, mods)]_vars
================================================================================
