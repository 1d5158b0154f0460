-------------------------- MODULE MCNotifications --------------------------
EXTENDS Notifications

\* Jobs that go to both channels: e-mail first, then in-app.
MCKind == [j \in Jobs |-> "estimate.sent"]
=============================================================================
