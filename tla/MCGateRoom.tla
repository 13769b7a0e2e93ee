----------------------------- MODULE MCGateRoom -----------------------------
(* Two attempts of one gate, two Briefings with overlapping inventories in    *)
(* another order, and one or two review rounds of at most three records.      *)
EXTENDS GateRoom

Item(id, revision) == [id |-> id, revision |-> revision]
MCItems == <<  <<Item("i", 1), Item("j", 1)>>,  <<Item("j", 2), Item("i", 1)>> >>

Attempt(id, bound, request) == [id |-> id, bound |-> bound, request |-> request]
Pointer(digest) == [key |-> 1, briefing |-> [id |-> "x", digest |-> digest]]
Entity(attempts, current, pointer) == [attempts |-> attempts, current |-> current, pointer |-> pointer]
MCEntities == {
    Entity(<<Attempt(1, 1, TRUE), Attempt(2, 2, FALSE)>>, 1, Pointer(1)),
    Entity(<<Attempt(1, 2, FALSE)>>, 0, None)}

Room(request, briefing, idx, fallback) ==
    [request |-> request, locator |-> request, briefing |-> briefing, index |-> idx,
     fallback |-> fallback]
MCGateRooms == {Room(0, 0, 1, 2), Room(1, 2, 1, 0)}

Line(id, kind, includes) ==
    [id |-> id, kind |-> kind, includes |-> includes, briefing |-> "x", whole |-> TRUE,
     reason |-> FALSE, body |-> 1]
Finding == Line("a", "annotation", <<>>)
Verdict == Line("b", "revise", <<"a">>)
Fix == Line("c", "annotation", <<"a", "b">>)
Review(digest, log) == [manifest |-> [id |-> "x", digest |-> digest], log |-> log]
MCReviews == {
    <<Review(1, <<Finding, Verdict, Fix>>), None>>,
    <<Review(1, <<[Finding EXCEPT !.body = 2], Verdict, Fix>>), None>>,
    <<Review(1, <<Finding, [Verdict EXCEPT !.includes = <<"a", "c">>], Fix>>), None>>,
    <<Review(2, <<Finding, Verdict, [Fix EXCEPT !.whole = FALSE]>>), Review(1, <<Finding>>)>>}

MCBytes == {[i |-> 1, j |-> 1], [i |-> 1, j |-> 2]}

Files(entity, rooms, folder) ==
    [entity |-> entity, rooms |-> rooms, folder |-> folder, bytes |-> [i |-> 1, j |-> 1],
     review |-> <<Review(1, <<Finding, Verdict, Fix>>), None>>]
MCStarts == {
    Files(Entity(<<Attempt(1, 1, TRUE), Attempt(2, 2, FALSE)>>, 1, Pointer(1)),
          <<Room(1, 2, 1, 0), Room(1, 2, 1, 0)>>, TRUE),
    Files(Entity(<<Attempt(1, 2, FALSE)>>, 0, None),
          <<Room(0, 0, 0, 2), Room(0, 0, 1, 2)>>, FALSE)}
=============================================================================
