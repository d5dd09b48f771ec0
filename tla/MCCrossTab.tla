----------------------------- MODULE MCCrossTab -----------------------------
EXTENDS CrossTab

\* Two of the four topics of startSubscription: the first, and one of the others.
MCTopicOrder == <<"notifications", "builderVersion">>
=============================================================================
