----------------------------- MODULE MCWebShell -----------------------------
\* Small registries for WebShell, one per family of hazards.
EXTENDS WebShell

MCKnown == << "title", "source" >>
MCOther == << "build", "vendor" >>
MCInstructions == {"RUN", "COPY", "CMD"}
MCArtifacts == [type \in {"cosign", "spdx"} |-> IF type = "cosign" THEN "signature" ELSE "sbom"]
MCVersions ==
    [t \in {"1.2", "1.10", "1.10-rc1", "2.0"} |->
        CASE t = "1.2" -> [nums |-> << 1, 2 >>, suffix |-> 0]
          [] t = "1.10" -> [nums |-> << 1, 10 >>, suffix |-> 0]
          [] t = "1.10-rc1" -> [nums |-> << 1, 10 >>, suffix |-> 1]
          [] t = "2.0" -> [nums |-> << 2, 0 >>, suffix |-> 0]]
MCNamed == << "alpine", "slim" >>
MCMatching == [q \in {"1"} |-> {"1.2", "1.10", "1.10-rc1", "latest1"}]
MCLocal == [architecture |-> "amd64", os |-> "linux"]
Arm == [architecture |-> "arm64", os |-> "linux"]

By(word) == [shell |-> FALSE, nop |-> FALSE, word |-> word]
ShellRun == [shell |-> TRUE, nop |-> FALSE, word |-> "apt-get"]
Nop(word) == [shell |-> TRUE, nop |-> TRUE, word |-> word]
Step(by, empty) == [by |-> by, empty |-> empty]
Layer(d, size) == [digest |-> d, size |-> size]
Says(keys, who) == [k \in keys |-> who]

Blank == [mediaType |-> "", valid |-> TRUE, config |-> Nothing, layers |-> << >>,
          entries |-> << >>, annotations |-> << >>, arch |-> "", history |-> << >>]
Image(type, config, layers, notes) ==
    [Blank EXCEPT !.mediaType = type, !.config = Just(config), !.layers = layers,
                  !.annotations = notes]
Index(type, entries, notes) ==
    [Blank EXCEPT !.mediaType = type, !.entries = entries, !.annotations = notes]
Entry(platform, d) == [platform |-> platform, digest |-> d, size |-> 1]
Config(history, labels) ==
    [valid |-> TRUE, platform |-> MCLocal, labels |-> labels, history |-> history]

Bodies == [d \in {"plain", "long", "short", "sig", "v1", "v1bad", "chart", "odd", "multi",
                  "list", "own", "foreign", "attest"} |->
    CASE d = "plain" -> Image("oci_image", "c-plain", << Layer("l1", 1), Layer("l2", 7) >>,
                              Says({"title", "vendor"}, "manifest"))
      [] d = "long" -> Image("docker_v2", "c-long", << Layer("l1", 1) >>, Says({"source"}, "dropped"))
      [] d = "short" -> Image("oci_image", "c-short", << Layer("l1", 1), Layer("l2", 7), Layer("l3", 2) >>, << >>)
      [] d = "sig" -> Image("oci_image", "c-bare", << Layer("s1", 1) >>, << >>)
      [] d = "v1" -> [Blank EXCEPT !.mediaType = "docker_v1", !.arch = "amd64",
                        !.layers = << Layer("l1", 0), Layer("l2", 0) >>,
                        !.history = << [decodes |-> TRUE, fits |-> TRUE, arch |-> "", os |-> "",
                                        labels |-> Says({"title"}, "v1"), by |-> Nop("CMD"),
                                        throwaway |-> TRUE],
                                       [decodes |-> FALSE, fits |-> TRUE, arch |-> "", os |-> "",
                                        labels |-> << >>, by |-> ShellRun, throwaway |-> FALSE],
                                       [decodes |-> TRUE, fits |-> TRUE, arch |-> "", os |-> "",
                                        labels |-> << >>, by |-> ShellRun, throwaway |-> FALSE] >>]
      [] d = "v1bad" -> [Blank EXCEPT !.mediaType = "docker_v1", !.arch = "arm64",
                           !.layers = << Layer("l1", 0) >>,
                           !.history = << [decodes |-> TRUE, fits |-> FALSE, arch |-> "", os |-> "",
                                           labels |-> << >>, by |-> ShellRun, throwaway |-> FALSE] >>]
      [] d = "chart" -> Image("oci_image", "c-chart", << Layer("t1", 1) >>, << >>)
      [] d = "odd" -> [Blank EXCEPT !.mediaType = "html"]
      [] d = "multi" -> Index("oci_index", << Entry(Nothing, "attest"), Entry(Just(Arm), "long"),
                                              Entry(Just(MCLocal), "plain") >>, << >>)
      [] d = "list" -> Index("docker_list", << Entry(Just(Arm), "long"), Entry(Nothing, "attest") >>,
                             Says({"title"}, "dropped"))
      [] d = "own" -> Index("oci_index", << Entry(Just(MCLocal), "plain") >>, Says({"build"}, "index"))
      [] d = "foreign" -> Index("oci_index", << Entry(Just(Arm), "chart") >>, << >>)
      [] d = "attest" -> Image("oci_image", "c-bare", << >>, Says({"title"}, "attestation"))]

Configs == [c \in {"c-plain", "c-long", "c-short", "c-bare", "c-chart"} |->
    CASE c = "c-plain" -> Config(<< Step(By("RUN"), FALSE), Step(Nop("CMD"), TRUE), Step(By("COPY"), FALSE) >>,
                                 Says({"title", "build"}, "label"))
      [] c = "c-long" -> Config(<< Step(ShellRun, FALSE), Step(By("bazel"), FALSE) >>,
                                Says({"vendor", "title"}, "label"))
      [] c = "c-short" -> Config(<< Step(By("CMD"), TRUE), Step(By("RUN"), FALSE) >>, << >>)
      [] c = "c-bare" -> Config(<< >>, << >>)
      [] c = "c-chart" -> [Config(<< >>, << >>) EXCEPT !.valid = FALSE]]

Row(readable, d, type) ==
    [readable |-> readable, digest |-> d, artifactType |-> type, mediaType |-> "spdx"]
Referrers == [d \in DOMAIN Bodies |->
    IF d = "plain" THEN << Row(FALSE, "x", Nothing), Row(TRUE, "sig", Just("cosign")) >> ELSE << >>]

\* listing[repo]: the tags as the registry lists them; to[t]: what tag t names.
Registry(admin, header, repos, listing, to) ==
    [admin |-> admin, header |-> header, repos |-> repos, listing |-> listing, moving |-> {},
     tag |-> [r \in DOMAIN listing |-> [t \in ToSet(listing[r]) |-> to[t]]],
     body |-> Bodies, config |-> Configs, referrers |-> Referrers]

\* Images, with referrers and something to delete.
ImageWorld ==
    Registry(TRUE, TRUE, << "app" >>, [r \in {"app", ""} |-> IF r = "" THEN << >> ELSE << "1.2", "2.0" >>],
             [t \in {"1.2", "2.0"} |-> IF t = "2.0" THEN "plain" ELSE "long"])
\* Multi-platform indexes, whose children a user can open and delete from.
IndexWorld ==
    Registry(TRUE, TRUE, << "app" >>,
             [r \in {"app", ""} |-> IF r = "" THEN << >> ELSE << "latest", "1.2", "slim" >>],
             [t \in {"1.2", "latest", "slim"} |-> CASE t = "latest" -> "multi" [] t = "1.2" -> "list"
                                                    [] t = "slim" -> "own"])
\* Manifests without their digests, or that are no well-formed image.
OddWorld ==
    Registry(FALSE, FALSE, << "odd" >>,
             [r \in {"odd", ""} |-> IF r = "" THEN << >>
                                    ELSE << "slim", "alpine", "1.2", "2.0", "1.10" >>],
             [t \in {"slim", "alpine", "1.2", "2.0", "1.10"} |->
                 CASE t = "slim" -> "foreign" [] t = "alpine" -> "v1bad" [] t = "1.2" -> "chart"
                   [] t = "2.0" -> "odd" [] t = "1.10" -> "own"])
\* Several repositories, more names than a page shows and more tags than are read.
ManyWorld ==
    Registry(FALSE, TRUE, << "a", "b", "e" >>,
             [r \in {"a", "b", "e", ""} |->
                 CASE r = "a" -> << "1.10-rc1", "1.2", "1.10", "2.0" >>
                   [] r = "b" -> << "slim", "alpine" >> [] OTHER -> << >>],
             [t \in {"1.10-rc1", "1.2", "1.10", "2.0", "slim", "alpine"} |->
                 IF t \in {"slim", "1.2"} THEN "v1" ELSE "short"])

\* An image whose tag moves, to another or back.
MovingWorld ==
    LET digests == {"plain", "long"} IN
    [Registry(TRUE, TRUE, << "app" >>, [r \in {"app", ""} |-> IF r = "" THEN << >> ELSE << "2.0" >>],
              [t \in {"2.0"} |-> "plain"])
        EXCEPT !.moving = {<< "app", "2.0" >>}, !.body = [d \in digests |-> Bodies[d]],
               !.referrers = [d \in digests |-> << >>]]

MCWorlds == {ImageWorld, IndexWorld, OddWorld, ManyWorld, MovingWorld}
ChildWorlds == {IndexWorld}
=============================================================================
