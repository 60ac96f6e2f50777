---------------------------- MODULE MCWebhookQueue ----------------------------
(***************************************************************************)
(* WebhookQueue with the symmetry its runs use: ids, services and replicas *)
(* are interchangeable.                                                    *)
(***************************************************************************)
EXTENDS WebhookQueue, TLC

Symmetry == Permutations(EventIds) \union Permutations(Slugs) \union Permutations(Replicas)

===============================================================================
