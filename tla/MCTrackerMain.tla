---------------------------- MODULE MCTrackerMain ----------------------------
EXTENDS TrackerMain

Group(backends, sound) == [backends |-> backends, sound |-> sound]

\* One that is in order and two that are anything: without a backend, with files that
\* do not load, with http targets alone or next to another backend.
Good == Group({"static"}, TRUE)
Others == { Group({}, TRUE), Group({"file"}, FALSE), Group({"http"}, TRUE),
            Group({"consul", "http"}, TRUE) }
MCConfigs == { << a, Good >> : a \in Others } \cup { << Good, a >> : a \in Others }
=============================================================================
