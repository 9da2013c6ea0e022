------------------------------ MODULE MCWebhook ------------------------------
(* A small instance of Webhook for TLC: two users, a family, and webhooks     *)
(* about one title on one player.                                             *)
EXTENDS Webhook, TLC

Hook(id, username, event, offset) ==
    [id |-> id, username |-> username, owner |-> FALSE, event |-> event, player |-> "tv",
     ratingKey |-> "42", server |-> "s", viewOffset |-> offset, duration |-> 400,
     section |-> "show", guids |-> TRUE, legacy |-> FALSE]

\* One playback sent to two URLs, the second one as the server's owner; a stop that
\* rounds up to the threshold; a webhook of a family without a duration and with
\* an id that no user has.
SomeHooks ==
    {Hook("a", "ann", "media.play", 100), Hook("a", "ann", "media.stop", 358),
     [Hook("b", "ann", "media.play", 100) EXCEPT !.owner = TRUE],
     [Hook("x", "fam", "media.scrobble", 0) EXCEPT !.duration = 0]}

Names == ("a" :> "ann") @@ ("b" :> "bob")

\* No action or invariant names a request or a member.
Symmetry == Permutations(Requests) \cup Permutations(Members)

\* Both users scrobble to one Trakt account.
OneAccount == [u \in Users |-> "trakt"]
=============================================================================
