-------------------------- MODULE MCDevicePresence --------------------------
EXTENDS DevicePresence, Notifications

Usb == <<"u", "usb">>
Wifi == <<"u", "wifi">>
\* One device on two muxers' cables; one muxer with both its transports.
MCScenes == {[reach |-> [s \in Sources |-> {Usb}], moves |-> 3],
             [reach |-> [s \in Sources |-> IF s = "m1" THEN {Usb, Wifi} ELSE {}], moves |-> 3]}

\* No muxer sees anything: the notifier alone.
NoScene == [reach |-> [s \in Sources |-> {}], moves |-> 0]
MCNoScene == {NoScene}
MCBothScenes == MCScenes \cup {NoScene}
\* Backups ending faster than they are told; reminders over time; first
\* subscriptions; a database without its key.
MCThemes == {[Quiet EXCEPT !.may = {"jobs"}, !.subscribed = {"e1"}, !.ends = {"lost"}, !.jobs = 3, !.updates = 1],
             [Quiet EXCEPT !.may = {"jobs", "restart"}, !.subscribed = {"e1"}, !.ends = {"succeeded", "broken"}, !.jobs = 1, !.ticks = 2],
             [Quiet EXCEPT !.may = {"jobs", "first", "leave"}, !.subscribed = {"e1"}, !.ends = {"lost"}, !.jobs = 1, !.updates = 1],
             [Quiet EXCEPT !.may = {"jobs", "delete", "db"}, !.subscribed = {"e1"}, !.ends = {"succeeded"}, !.jobs = 1, !.ticks = 2],
             [Quiet EXCEPT !.may = {"leave"}, !.subscribed = {"e1"}, !.ticks = 3, !.updates = 2],
             [Quiet EXCEPT !.may = {"subscribe", "test", "away"}, !.gens = 2],
             [Quiet EXCEPT !.may = {"jobs", "mute"}, !.subscribed = Endpoints, !.ends = {"cancelled"}, !.jobs = 1, !.ticks = 1],
             [Quiet EXCEPT !.may = {"lostKey"}, !.subscribed = {"e1"}, !.ticks = 3]}
MCRevive == {[Quiet EXCEPT !.may = {"subscribe", "test", "away"}, !.gens = 2]}

NotifierAlone == reach = NoScene.reach
EventsInit == Init /\ NotifyInit(IF NotifierAlone THEN Themes ELSE {Quiet})
EventsNext == \/ Next /\ UNCHANGED notifyVars
              \/ NotifierAlone /\ NotifyNext /\ UNCHANGED vars
\* Goroutines run, the ticker ticks, a delivery is answered or times out.  The
\* forwarder's select takes either ready case; the runner's, drawing among the
\* ready ones, takes an event again and again waiting, however often it is due.
EventsSpec == /\ EventsInit /\ [][EventsNext]_<<vars, notifyVars>> /\ Fairness
              /\ WF_notifyVars(NotifierAlone /\ Forwarding) /\ SF_notifyVars(NotifierAlone /\ Reading)
              /\ WF_notifyVars(NotifierAlone /\ DeliveryEnds) /\ WF_notifyVars(NotifierAlone /\ HourTick)
              /\ WF_notifyVars(NotifierAlone /\ Delivering("runner")) /\ WF_notifyVars(NotifierAlone /\ Delivering("test"))
              /\ WF_notifyVars(NotifierAlone /\ TestEnds)
=============================================================================
