SPECIFICATION ReadingSpec
CONSTANTS
    Subs = {s1, s2}
    Nobody = Nobody
    MaxPublished = 4
PROPERTIES
    PublishEnds
    NewsArrives
